---- MODULE Spec2Model ----
(***************************************************************************)
(* Model of the terminal front-end core of codex-rs:                       *)
(*   - the status-line pipeline  (tui2/src/status_line.rs)                 *)
(*   - the application controller and its commit-animation ticker          *)
(*     (tui/src/app.rs, App::run, App::handle_event, App::handle_key_event)*)
(*   - the resumed-history renderer                                        *)
(*     (tui/src/app.rs, render_lines_for_resumed_history)                  *)
(* Time is a discrete clock counted in milliseconds.                       *)
(***************************************************************************)
EXTENDS Integers, Sequences, FiniteSets, TLC

\* ------------------------------------------------------------------ bounds
\* Number of snapshots the controller submits through update().
MaxSnap == 3
\* Clock step of the model, in milliseconds.
TickMs == 100
\* The clock runs freely up to MaxTime ms (and further only while a sleep
\* of the worker needs it to).
MaxTime == 400
\* Longest stdout (in bytes) a status-line command produces.
MaxOut == 2
\* Largest configured padding.
MaxPad == 1
\* Number of Start/StopCommitAnimation events the chat widget emits.
MaxAnimEvents == 4
\* Number of CommitTick events the ticker threads emit.
MaxTicks == 3

\* Number of app events sent to the controller.
MaxAppEvents == 4
\* Number of app events waiting in the channel at a time.
MaxQueue == 2
\* Number of terminal events the controller handles.
MaxTuiEvents == 3
\* Longest list of entries handed to the renderer.
MaxEntries == 3
\* Number of lines one InsertHistoryLines event carries.
LinesPerEvent == 2
\* Highest backtrack.count reached by repeated Esc.
MaxCount == 1
\* The most tokens of a message text drawn from the token alphabet.
MaxText == 4
\* The most lines of a message text made of lines.
MaxMdLines == 19
\* The most lines of a log.
MaxLogLines == 2
\* The largest max_bytes passed to the scanner, in tokens.
MaxBytes == 12

\* ------------------------------------------------------- program constants
\* STATUS_LINE_MIN_INTERVAL, in milliseconds.
STATUS_LINE_MIN_INTERVAL == 300

\* ------------------------------------------------------------------- state
VARIABLES
  \* --- status-line pipeline
  update_rx,     \* the unbounded channel: snapshots sent and not yet received
  senderAlive,   \* the StatusLineManager (the only sender) is not dropped
  submitted,     \* number of update() calls so far; snapshot k is the k-th
  created,       \* clock at StatusLineManager::new
  burst,         \* history: every update() so far came at the clock `created`
  pc,            \* position of the worker task
  pending,       \* Option<StatusLineInput>: <<>> or <<k>>
  input,         \* the snapshot bound by `while let Some(input)`
  last_run,      \* Instant of the last publication
  now,           \* the clock
  command,       \* settings.command: "empty" or "argv"
  padding,       \* settings.padding.unwrap_or(FOOTER_INDENT_COLS)
  child,         \* the child the worker holds
  orphans,       \* children dropped by the worker while still running
  output,        \* the Option<String> run_status_line_command returns
  run,           \* what happened in the current/latest command run
  runs,          \* history: snapshots the command was invoked with
  npub,          \* history: number of UpdateStatusLine events sent
  lastPub,       \* history: the latest UpdateStatusLine publication
  prevPubAt,     \* history: clock of the publication before the latest
  \* --- commit animation (application controller)
  app_event_rx,          \* the app-event channel, in FIFO order
  commit_anim_running, \* the shared AtomicBool
  tickers,             \* number of ticker threads at each position
  animEmitted,         \* history: Start/Stop events emitted so far
  ticksEmitted,        \* history: CommitTick events sent by the tickers
  ticksDelivered,      \* history: on_commit_tick() calls
  startHandled,        \* history: a StartCommitAnimation was handled
  ticksSinceStart,     \* history: ticks sent since the latest handled Start
  afterStop,           \* history: "none", or how the latest Stop was handled
  staleTicks,          \* history: ticks sent since that Stop
  old,                 \* history: the tickers that were running at the
                       \*   latest store(false), by position
  oldContinued,        \* history: one of those loaded true afterwards
  \* --- application controller
  loop,                    \* App::run: "running", "exited" (Ok) or "failed" (Err)
  transcript_lines,        \* Vec<Line>
  overlay,                 \* Option<Overlay>
  deferred_history_lines,  \* Vec<Line>
  scrollback,              \* lines written by tui.insert_history_lines
  experimental_resume,     \* config.experimental_resume: Option<PathBuf>
  session_id,              \* chat_widget.session_id(): Option<Uuid>
  backtrack,               \* BacktrackState
  appEmitted,              \* history: app events sent to the controller
  tuiHandled,              \* history: terminal events handled
  nextLine,                \* history: lines created so far
  lastEvent,               \* history: the event handled last
  lastKey,                 \* history: the latest key dispatch when no overlay
  replays,                 \* history: replays since resume_path was last set
  lastFlush,               \* history: what the latest overlay close flushed
  \* --- resumed-history renderer
  entries,                 \* Vec<ResponseItem> handed to the renderer
  resume_path,             \* Option: what the files at the resume path hold
  rendered,                \* Option<Vec<Line>>: the lines returned
  \* --- log scanner
  sidecar,                 \* the bytes of <log>.meta.json, or Unreadable
  log,                     \* the bytes of the log, or Unreadable
  max_bytes,               \* the max_bytes a caller passes
  stats                    \* Option<SessionStats>: what the scanner returned

slVars == <<update_rx, senderAlive, submitted, created, burst, pc,
            pending, input, last_run, now, command, padding, child, orphans,
            output, run, runs, npub, lastPub, prevPubAt>>

tickerVars == <<commit_anim_running, tickers, animEmitted, ticksEmitted,
                ticksDelivered, startHandled, ticksSinceStart, afterStop,
                staleTicks, old, oldContinued>>

animVars == <<app_event_rx, tickerVars>>

ctlVars == <<loop, transcript_lines, overlay, deferred_history_lines,
             scrollback, experimental_resume, session_id, backtrack,
             appEmitted, tuiHandled, nextLine, lastEvent, lastKey, replays,
             lastFlush>>

scanVars == <<sidecar, log, max_bytes, stats>>

rndVars == <<entries, resume_path, rendered, scanVars>>

vars == <<slVars, animVars, ctlVars, rndVars>>

\* ------------------------------------------------------------ Option<T>
None == <<>>
Some(x) == <<x>>
IsSome(o) == o # <<>>
Unwrap(o) == o[1]

Last(s) == s[Len(s)]

\* ------------------------------------------------- stdout of the command
\* Bytes a command may write: a letter, a space, a carriage return, a line
\* feed, and a byte that is not valid UTF-8.
Bytes == {"a", "sp", "cr", "nl", "bad"}

SeqsUpTo(S, n) == UNION {[1..k -> S] : k \in 0..n}

Stdouts == SeqsUpTo(Bytes, MaxOut)

\* String::from_utf8_lossy: every invalid byte becomes U+FFFD.
FromUtf8Lossy(bytes) ==
  [i \in 1..Len(bytes) |-> IF bytes[i] = "bad" THEN "fffd" ELSE bytes[i]]

\* char::is_whitespace on the characters of the model.
IsWhitespace(c) == c \in {"sp", "cr", "nl"}

\* str::trim().is_empty()
TrimIsEmpty(s) == \A i \in 1..Len(s) : IsWhitespace(s[i])

\* Index of the first line feed of s, 0 when there is none.
FirstNl(s) ==
  IF \E i \in 1..Len(s) : s[i] = "nl"
    THEN CHOOSE i \in 1..Len(s) : s[i] = "nl" /\ \A j \in 1..(i - 1) : s[j] # "nl"
    ELSE 0

\* str::lines(): split_inclusive('\n'), then strip one "\n" and, only if a
\* "\n" was stripped, one "\r" before it.
RECURSIVE Lines(_)
Lines(s) ==
  IF s = <<>> THEN <<>>
  ELSE LET n == FirstNl(s) IN
       IF n = 0 THEN <<s>>
       ELSE LET body == SubSeq(s, 1, n - 1)
                line == IF body # <<>> /\ Last(body) = "cr"
                          THEN SubSeq(body, 1, Len(body) - 1)
                          ELSE body
            IN <<line>> \o Lines(SubSeq(s, n + 1, Len(s)))

\* " ".repeat(padding)
Repeat(n) == [i \in 1..n |-> "sp"]

\* ParseOutput without the test of the exit status.
ParseOutput_IgnoreStatus(success, stdout, pad) ==
  LET ls == Lines(FromUtf8Lossy(stdout)) IN
  IF ls = <<>> THEN None
  ELSE IF TrimIsEmpty(ls[1]) THEN None
  ELSE Some(Repeat(pad) \o ls[1])

\* ParseOutput that skips blank lines and takes the first non-blank one.
ParseOutput_SkipBlank(success, stdout, pad) ==
  IF ~success THEN None
  ELSE LET ls == Lines(FromUtf8Lossy(stdout))
           good == {i \in 1..Len(ls) : ~TrimIsEmpty(ls[i])}
       IN IF good = {} THEN None
          ELSE Some(Repeat(pad) \o
                    ls[CHOOSE i \in good : \A j \in good : i <= j])

\* Lines 216-230 of run_status_line_command: the Option<String> computed
\* from the exit status and the captured stdout.
ParseOutput(success, stdout, pad) ==
  IF ~success THEN None
  ELSE LET ls == Lines(FromUtf8Lossy(stdout)) IN
       IF ls = <<>> THEN None
       ELSE IF TrimIsEmpty(ls[1]) THEN None
       ELSE Some(Repeat(pad) \o ls[1])

\* ------------------------------------------------------------------- Init
NoChild == [st |-> "none", stdin |-> FALSE]
NoRun == [snap |-> 0, spawned |-> FALSE, wrote |-> FALSE, waited |-> FALSE,
          ok |-> FALSE, out |-> <<>>]
NoPub == [snap |-> 0, some |-> FALSE, at |-> 0]

\* Instant::now().checked_sub(MIN_INTERVAL).unwrap_or_else(Instant::now)
InitialLastRun(t) ==
  IF t >= STATUS_LINE_MIN_INTERVAL THEN t - STATUS_LINE_MIN_INTERVAL ELSE t

InitSL ==
  /\ update_rx = <<>>
  /\ senderAlive = TRUE
  /\ submitted = 0
  /\ burst = TRUE
  /\ pc = "recv"
  /\ pending = None
  /\ input = 0
  /\ now \in {0, STATUS_LINE_MIN_INTERVAL}
  /\ created = now
  /\ last_run = InitialLastRun(now)
  /\ command \in {"empty", "argv"}
  /\ padding \in 0..MaxPad
  /\ child = NoChild
  /\ orphans = 0
  /\ output = None
  /\ run = NoRun
  /\ runs = <<>>
  /\ npub = 0
  /\ lastPub = NoPub
  /\ prevPubAt = None

InitAnim ==
  /\ app_event_rx = <<>>
  /\ commit_anim_running = FALSE
  /\ tickers = [load |-> 0, sleep |-> 0, send |-> 0]
  /\ animEmitted = 0
  /\ ticksEmitted = 0
  /\ ticksDelivered = 0
  /\ startHandled = FALSE
  /\ ticksSinceStart = 0
  /\ afterStop = "none"
  /\ staleTicks = 0
  /\ old = [load |-> 0, sleep |-> 0, send |-> 0]
  /\ oldContinued = FALSE

\* BacktrackState::default().
NoBacktrack == [primed |-> FALSE, count |-> 0, pending |-> None]

\* No key has been dispatched yet.
NoKey == [code |-> "none", mods |-> "none", kind |-> "none",
          normal |-> FALSE, empty |-> FALSE, primed |-> FALSE, count |-> 0,
          outcome |-> "none"]

\* Paths a session can be resumed from.
Paths == {"rollout"}

\* app.rs 86-98: the App as App::run builds it; config.experimental_resume
\* is set when the program was started with a resume path.
InitCtl ==
  /\ loop = "running"
  /\ transcript_lines = <<>>
  /\ overlay = None
  /\ deferred_history_lines = <<>>
  /\ scrollback = <<>>
  /\ experimental_resume \in {None} \cup {Some(p) : p \in Paths}
  /\ session_id = None
  /\ backtrack = NoBacktrack
  /\ appEmitted = 0
  /\ tuiHandled = 0
  /\ nextLine = 0
  /\ lastEvent = "none"
  /\ lastKey = NoKey
  /\ replays = 0
  /\ lastFlush = <<>>

\* What stands for the bytes of a file that fs::read fails to read.
Unreadable == <<"ENOENT">>

\* The renderer has not been called.
InitRnd ==
  /\ entries = <<>>
  /\ resume_path = None
  /\ rendered = None
  /\ sidecar = Unreadable /\ log = Unreadable
  /\ max_bytes = 0 /\ stats = None

\* One status-line pipeline beside a controller started without a resume
\* path.
Init == InitSL /\ InitAnim /\ InitCtl /\ experimental_resume = None /\ InitRnd

\* ------------------------------------------------ StatusLineManager::update
Update ==
  /\ senderAlive
  /\ submitted < MaxSnap
  /\ submitted' = submitted + 1
  /\ update_rx' = Append(update_rx, submitted + 1)
  /\ burst' = (burst /\ now = created)
  /\ UNCHANGED <<animVars, ctlVars, rndVars, senderAlive, created, pc, pending, input, last_run, now, command,
                 padding, child, orphans, output, run, runs, npub, lastPub,
                 prevPubAt>>

\* The StatusLineManager is dropped: the channel loses its only sender.
DropManager ==
  /\ senderAlive
  /\ senderAlive' = FALSE
  /\ UNCHANGED <<animVars, ctlVars, rndVars, update_rx, submitted, created, burst, pc, pending,
                 input, last_run, now, command, padding, child, orphans,
                 output, run, runs, npub, lastPub, prevPubAt>>

\* -------------------------------------------------- the worker task
\* RecvSome that takes the newest queued snapshot and discards the others.
RecvSome_TakeLatest ==
  /\ pc = "recv"
  /\ pending = None
  /\ update_rx # <<>>
  /\ pending' = Some(Last(update_rx))
  /\ update_rx' = <<>>
  /\ pc' = "check"
  /\ UNCHANGED <<animVars, ctlVars, rndVars, senderAlive, submitted, created, burst, input,
                 last_run, now, command, padding, child, orphans, output, run,
                 runs, npub, lastPub, prevPubAt>>

\* Lines 154-161, a snapshot is received: pending = Some(next_input).
RecvSome ==
  /\ pc = "recv"
  /\ IF IsSome(pending)
       THEN UNCHANGED <<animVars, ctlVars, rndVars, pending, update_rx>>
       ELSE /\ update_rx # <<>>
            /\ pending' = Some(Head(update_rx))
            /\ update_rx' = Tail(update_rx)
  /\ pc' = "check"
  /\ UNCHANGED <<animVars, ctlVars, rndVars, senderAlive, submitted, created, burst, input,
                 last_run, now, command, padding, child, orphans, output, run,
                 runs, npub, lastPub, prevPubAt>>

\* RecvClosed that leaves the loop as soon as the sender is dropped, with
\* snapshots still queued.
RecvClosed_Eager ==
  /\ pc = "recv"
  /\ pending = None
  /\ ~senderAlive
  /\ pc' = "done"
  /\ UNCHANGED <<animVars, ctlVars, rndVars, update_rx, senderAlive, submitted, created, burst,
                 pending, input, last_run, now, command, padding, child,
                 orphans, output, run, runs, npub, lastPub, prevPubAt>>

\* Lines 156-158: recv() yields None once the channel is empty and its
\* sender is dropped; the task leaves its loop.
RecvClosed ==
  /\ pc = "recv"
  /\ pending = None
  /\ update_rx = <<>>
  /\ ~senderAlive
  /\ pc' = "done"
  /\ UNCHANGED <<animVars, ctlVars, rndVars, update_rx, senderAlive, submitted, created, burst,
                 pending, input, last_run, now, command, padding, child,
                 orphans, output, run, runs, npub, lastPub, prevPubAt>>

\* CheckWindow that reads `pending` without taking it.
CheckWindow_NoTake ==
  /\ pc = "check"
  /\ IF IsSome(pending)
       THEN /\ input' = Unwrap(pending)
            /\ pending' = pending
            /\ pc' = IF now < last_run + STATUS_LINE_MIN_INTERVAL
                       THEN "sleep" ELSE "call"
       ELSE /\ pc' = "recv"
            /\ UNCHANGED <<animVars, ctlVars, rndVars, input, pending>>
  /\ UNCHANGED <<animVars, ctlVars, rndVars, update_rx, senderAlive, submitted, created, burst,
                 last_run, now, command, padding, child, orphans, output, run,
                 runs, npub, lastPub, prevPubAt>>

\* Lines 163-168: `while let Some(input) = pending.take()`, then the test
\* of the clock against last_run + STATUS_LINE_MIN_INTERVAL.
CheckWindow ==
  /\ pc = "check"
  /\ IF IsSome(pending)
       THEN /\ input' = Unwrap(pending)
            /\ pending' = None
            /\ pc' = IF now < last_run + STATUS_LINE_MIN_INTERVAL
                       THEN "sleep" ELSE "call"
       ELSE /\ pc' = "recv"
            /\ UNCHANGED <<animVars, ctlVars, rndVars, input, pending>>
  /\ UNCHANGED <<animVars, ctlVars, rndVars, update_rx, senderAlive, submitted, created, burst,
                 last_run, now, command, padding, child, orphans, output, run,
                 runs, npub, lastPub, prevPubAt>>

\* Wake with a sleep that may return before next_at.
Wake_Early ==
  /\ pc = "sleep"
  /\ pc' = "call"
  /\ UNCHANGED <<animVars, ctlVars, rndVars, update_rx, senderAlive, submitted, created, burst,
                 pending, input, last_run, now, command, padding, child,
                 orphans, output, run, runs, npub, lastPub, prevPubAt>>

\* Line 167: sleep_until(next_at) returns, never before next_at.
Wake ==
  /\ pc = "sleep"
  /\ now >= last_run + STATUS_LINE_MIN_INTERVAL
  /\ pc' = "call"
  /\ UNCHANGED <<animVars, ctlVars, rndVars, update_rx, senderAlive, submitted, created, burst,
                 pending, input, last_run, now, command, padding, child,
                 orphans, output, run, runs, npub, lastPub, prevPubAt>>

\* ------------------------------------------- run_status_line_command
NewRun == [snap |-> input, spawned |-> FALSE, wrote |-> FALSE,
           waited |-> FALSE, ok |-> FALSE, out |-> <<>>]

\* Lines 170, 195-206: the call; command.first()? or spawn().ok()? is None.
SpawnFail ==
  /\ pc = "call"
  /\ runs' = Append(runs, input)
  /\ run' = NewRun
  /\ output' = None
  /\ pc' = "publish"
  /\ UNCHANGED <<animVars, ctlVars, rndVars, update_rx, senderAlive, submitted, created, burst,
                 pending, input, last_run, now, command, padding, child,
                 orphans, npub, lastPub, prevPubAt>>

\* Lines 170, 195-206: the call; the child is spawned with piped stdio.
SpawnOk ==
  /\ pc = "call"
  /\ command = "argv"
  /\ runs' = Append(runs, input)
  /\ run' = [NewRun EXCEPT !.spawned = TRUE]
  /\ child' = [st |-> "running", stdin |-> TRUE]
  /\ pc' = "write"
  /\ UNCHANGED <<animVars, ctlVars, rndVars, update_rx, senderAlive, submitted, created, burst,
                 pending, input, last_run, now, command, padding, orphans,
                 output, npub, lastPub, prevPubAt>>

\* The child still reads the pipe behind its stdin.
StdinReadable == child.st = "running" /\ child.stdin

\* Lines 208-213: the payload is written (the newline is best-effort) and
\* the stdin handle is dropped.
WriteOk ==
  /\ pc = "write"
  /\ StdinReadable
  /\ run' = [run EXCEPT !.wrote = TRUE]
  /\ pc' = "wait"
  /\ UNCHANGED <<animVars, ctlVars, rndVars, update_rx, senderAlive, submitted, created, burst,
                 pending, input, last_run, now, command, padding, child,
                 orphans, output, runs, npub, lastPub, prevPubAt>>

\* Lines 209-211: write_all fails (broken pipe): `return None`. The Child
\* is dropped without kill or wait, so a running child keeps running.
WriteErr ==
  /\ pc = "write"
  /\ ~StdinReadable
  /\ output' = None
  /\ orphans' = IF child.st = "running" THEN orphans + 1 ELSE orphans
  /\ child' = NoChild
  /\ pc' = "publish"
  /\ UNCHANGED <<animVars, ctlVars, rndVars, update_rx, senderAlive, submitted, created, burst,
                 pending, input, last_run, now, command, padding, run, runs,
                 npub, lastPub, prevPubAt>>

\* Lines 215-230: wait_with_output() returns once the child has exited,
\* with the exit status and the stdout the child left behind.
WaitOutput ==
  /\ pc = "wait"
  /\ child.st = "exited"
  /\ \E ok \in BOOLEAN, out \in Stdouts :
       /\ run' = [run EXCEPT !.waited = TRUE, !.ok = ok, !.out = out]
       /\ output' = ParseOutput(ok, out, padding)
  /\ child' = NoChild
  /\ pc' = "publish"
  /\ UNCHANGED <<animVars, ctlVars, rndVars, update_rx, senderAlive, submitted, created, burst,
                 pending, input, last_run, now, command, padding, orphans,
                 runs, npub, lastPub, prevPubAt>>

\* Line 215: wait_with_output() fails with an I/O error: .ok()? is None.
WaitErr ==
  /\ pc = "wait"
  /\ child.st = "exited"
  /\ output' = None
  /\ child' = NoChild
  /\ pc' = "publish"
  /\ UNCHANGED <<animVars, ctlVars, rndVars, update_rx, senderAlive, submitted, created, burst,
                 pending, input, last_run, now, command, padding, orphans,
                 run, runs, npub, lastPub, prevPubAt>>

\* Lines 171-172: the event is sent (`output` moves into it) and last_run
\* is set to the clock; the call's locals are gone.
Publish ==
  /\ pc = "publish"
  /\ npub' = npub + 1
  /\ prevPubAt' = IF npub > 0 THEN Some(lastPub.at) ELSE None
  /\ lastPub' = [snap |-> input, some |-> IsSome(output), at |-> now]
  /\ last_run' = now
  /\ output' = None
  /\ run' = NoRun
  /\ pc' = "drain"
  /\ UNCHANGED <<animVars, ctlVars, rndVars, update_rx, senderAlive, submitted, created, burst,
                 pending, input, now, command, padding, child, orphans,
                 runs>>

\* DrainOne that keeps the first drained snapshot instead of the latest.
DrainOne_KeepFirst ==
  /\ pc = "drain"
  /\ update_rx # <<>>
  /\ pending' = IF IsSome(pending) THEN pending ELSE Some(Head(update_rx))
  /\ update_rx' = Tail(update_rx)
  /\ UNCHANGED <<animVars, ctlVars, rndVars, senderAlive, submitted, created, burst, pc, input,
                 last_run, now, command, padding, child, orphans, output, run,
                 runs, npub, lastPub, prevPubAt>>

\* Lines 174-176: one try_recv() that yields a snapshot.
DrainOne ==
  /\ pc = "drain"
  /\ update_rx # <<>>
  /\ pending' = Some(Head(update_rx))
  /\ update_rx' = Tail(update_rx)
  /\ UNCHANGED <<animVars, ctlVars, rndVars, senderAlive, submitted, created, burst, pc, input,
                 last_run, now, command, padding, child, orphans, output, run,
                 runs, npub, lastPub, prevPubAt>>

\* Line 174: try_recv() is Err (empty or disconnected): back to line 163.
DrainDone ==
  /\ pc = "drain"
  /\ update_rx = <<>>
  /\ pc' = "check"
  /\ UNCHANGED <<animVars, ctlVars, rndVars, update_rx, senderAlive, submitted, created, burst,
                 pending, input, last_run, now, command, padding, child,
                 orphans, output, run, runs, npub, lastPub, prevPubAt>>

\* ------------------------------------------------ the command processes
\* The running child closes its standard input.
ChildCloseStdin ==
  /\ child.st = "running"
  /\ child.stdin
  /\ child' = [child EXCEPT !.stdin = FALSE]
  /\ UNCHANGED <<animVars, ctlVars, rndVars, update_rx, senderAlive, submitted, created, burst,
                 pc, pending, input, last_run, now, command, padding,
                 orphans, output, run, runs, npub, lastPub, prevPubAt>>

\* The running child exits.
ChildExit ==
  /\ child.st = "running"
  /\ child' = [st |-> "exited", stdin |-> FALSE]
  /\ UNCHANGED <<animVars, ctlVars, rndVars, update_rx, senderAlive, submitted, created, burst,
                 pc, pending, input, last_run, now, command, padding,
                 orphans, output, run, runs, npub, lastPub, prevPubAt>>

\* A child the worker dropped while it was running exits.
OrphanExit ==
  /\ orphans > 0
  /\ orphans' = orphans - 1
  /\ UNCHANGED <<animVars, ctlVars, rndVars, update_rx, senderAlive, submitted, created, burst,
                 pc, pending, input, last_run, now, command, padding, child,
                 output, run, runs, npub, lastPub, prevPubAt>>

\* Number of command processes of the pipeline that are alive.
AliveChildren == (IF child.st = "running" THEN 1 ELSE 0) + orphans

\* ------------------------------------------------------------- the clock
Tick ==
  /\ \/ now < MaxTime
     \/ pc = "sleep" /\ now < last_run + STATUS_LINE_MIN_INTERVAL
  /\ now' = now + TickMs
  /\ UNCHANGED <<animVars, ctlVars, rndVars, update_rx, senderAlive, submitted, created, burst,
                 pc, pending, input, last_run, command, padding, child,
                 orphans, output, run, runs, npub, lastPub, prevPubAt>>

\* =================================================== commit animation
\* Every operation on the AtomicBool is one step, and a load reads the
\* latest store.
\* Number of ticker threads that exist.
NumTickers == tickers.load + tickers.sleep + tickers.send

\* The chat widget sends StartCommitAnimation or StopCommitAnimation.
EmitAnimEvent ==
  /\ animEmitted < MaxAnimEvents
  /\ animEmitted' = animEmitted + 1
  /\ \E e \in {"StartCommitAnimation", "StopCommitAnimation"} :
       app_event_rx' = Append(app_event_rx, [kind |-> e])
  /\ UNCHANGED <<slVars, ctlVars, rndVars, commit_anim_running, tickers,
                 ticksEmitted, ticksDelivered, startHandled, ticksSinceStart,
                 afterStop, staleTicks, old, oldContinued>>

\* app.rs 105-108: the loop of App::run receives the next app event.
Received(kind) ==
  /\ loop = "running"
  /\ app_event_rx # <<>>
  /\ Head(app_event_rx).kind = kind

\* app.rs 229-244: compare_exchange(false, true); on success one thread is
\* spawned, which starts at its `while running.load(..)`.
HandleStart ==
  /\ Received("StartCommitAnimation")
  /\ app_event_rx' = Tail(app_event_rx)
  /\ IF commit_anim_running = FALSE
       THEN /\ commit_anim_running' = TRUE
            /\ tickers' = [tickers EXCEPT !.load = @ + 1]
       ELSE UNCHANGED <<commit_anim_running, tickers>>
  /\ startHandled' = TRUE
  /\ ticksSinceStart' = 0
  /\ afterStop' = "none"
  /\ staleTicks' = 0
  /\ UNCHANGED <<slVars, ctlVars, rndVars, animEmitted, ticksEmitted,
                 ticksDelivered, old, oldContinued>>

\* app.rs 245-247: store(false).
HandleStop ==
  /\ Received("StopCommitAnimation")
  /\ app_event_rx' = Tail(app_event_rx)
  /\ commit_anim_running' = FALSE
  /\ afterStop' = IF startHandled /\ ticksSinceStart = 0
                    THEN "before_any_tick" ELSE "after_ticks"
  /\ staleTicks' = 0
  /\ old' = tickers
  /\ UNCHANGED <<slVars, ctlVars, rndVars, tickers, animEmitted, ticksEmitted,
                 ticksDelivered, startHandled, ticksSinceStart, oldContinued>>

\* app.rs 248-250: the tick reaches the chat widget.
HandleCommitTick ==
  /\ Received("CommitTick")
  /\ app_event_rx' = Tail(app_event_rx)
  /\ ticksDelivered' = ticksDelivered + 1
  /\ UNCHANGED <<slVars, ctlVars, rndVars, commit_anim_running, tickers,
                 animEmitted, ticksEmitted, startHandled, ticksSinceStart,
                 afterStop, staleTicks, old, oldContinued>>

\* A ticker at position p takes a step: either one of those that were
\* running at the latest store(false), or one spawned since.
CanStep(p, isOld) ==
  IF isOld THEN old[p] > 0 ELSE tickers[p] - old[p] > 0

\* app.rs 238: a ticker loads the flag; false ends the thread.
TickerLoad ==
  /\ \E isOld \in BOOLEAN :
       /\ CanStep("load", isOld)
       /\ old' = IF isOld THEN [old EXCEPT !.load = @ - 1] ELSE old
       /\ oldContinued' = (oldContinued \/ (isOld /\ commit_anim_running))
  /\ tickers' = IF commit_anim_running
                  THEN [tickers EXCEPT !.load = @ - 1, !.sleep = @ + 1]
                  ELSE [tickers EXCEPT !.load = @ - 1]
  /\ UNCHANGED <<slVars, ctlVars, rndVars, app_event_rx, commit_anim_running,
                 animEmitted, ticksEmitted, ticksDelivered, startHandled,
                 ticksSinceStart, afterStop, staleTicks>>

\* app.rs 239: the 50 ms sleep of a ticker ends.
TickerWake ==
  /\ \E isOld \in BOOLEAN :
       /\ CanStep("sleep", isOld)
       /\ old' = IF isOld THEN [old EXCEPT !.sleep = @ - 1, !.send = @ + 1]
                          ELSE old
  /\ tickers' = [tickers EXCEPT !.sleep = @ - 1, !.send = @ + 1]
  /\ UNCHANGED <<slVars, ctlVars, rndVars, app_event_rx, commit_anim_running,
                 animEmitted, ticksEmitted, ticksDelivered, startHandled,
                 ticksSinceStart, afterStop, staleTicks, oldContinued>>

\* TickerSend of a ticker written with `if` for `while`: the thread ends
\* after its first tick.
TickerSend_Exit ==
  /\ ticksEmitted < MaxTicks
  /\ \E isOld \in BOOLEAN :
       /\ CanStep("send", isOld)
       /\ old' = IF isOld THEN [old EXCEPT !.send = @ - 1] ELSE old
  /\ tickers' = [tickers EXCEPT !.send = @ - 1]
  /\ app_event_rx' = Append(app_event_rx, [kind |-> "CommitTick"])
  /\ ticksEmitted' = ticksEmitted + 1
  /\ ticksSinceStart' = ticksSinceStart + 1
  /\ staleTicks' = IF afterStop = "none" THEN staleTicks ELSE staleTicks + 1
  /\ UNCHANGED <<slVars, ctlVars, rndVars, commit_anim_running, animEmitted,
                 ticksDelivered, startHandled, afterStop, oldContinued>>

\* app.rs 240: a ticker sends CommitTick and goes back to its load.
TickerSend ==
  /\ ticksEmitted < MaxTicks
  /\ \E isOld \in BOOLEAN :
       /\ CanStep("send", isOld)
       /\ old' = IF isOld THEN [old EXCEPT !.send = @ - 1, !.load = @ + 1]
                          ELSE old
  /\ tickers' = [tickers EXCEPT !.send = @ - 1, !.load = @ + 1]
  /\ app_event_rx' = Append(app_event_rx, [kind |-> "CommitTick"])
  /\ ticksEmitted' = ticksEmitted + 1
  /\ ticksSinceStart' = ticksSinceStart + 1
  /\ staleTicks' = IF afterStop = "none" THEN staleTicks ELSE staleTicks + 1
  /\ UNCHANGED <<slVars, ctlVars, rndVars, commit_anim_running, animEmitted,
                 ticksDelivered, startHandled, afterStop, oldContinued>>

NextAnim ==
  \/ EmitAnimEvent
  \/ HandleStart \/ HandleStop \/ HandleCommitTick
  \/ TickerLoad \/ TickerWake \/ TickerSend

\* The controller as constructed, beside one idle status-line pipeline.
InitApp == Init /\ now = 0 /\ command = "argv" /\ padding = 0

SpecAnim == InitApp /\ [][NextAnim]_vars

\* ============================================ resumed-history renderer
\* Strings are sequences of tokens: "x" for an ordinary character, "sp" and
\* "nl" for white space, "_" for an underscore, and one token for each of
\* the wrapper tags.
Min(S) == CHOOSE x \in S : \A y \in S : x <= y
Max(S) == CHOOSE x \in S : \A y \in S : x >= y

\* str::find of a one-token pattern: the first index, or None.
Find(t, tok) ==
  LET at == {i \in 1..Len(t) : t[i] = tok} IN
  IF at = {} THEN None ELSE Some(Min(at))

\* str::trim.
Trim(t) ==
  LET keep == {i \in 1..Len(t) : t[i] \notin {"sp", "nl"}} IN
  IF keep = {} THEN <<>> ELSE SubSeq(t, Min(keep), Max(keep))

\* app.rs 647-652 and 653-658: unwrap one pair of tags.  The slice
\* &t[start + len .. end] aborts when the closing tag comes first.
Unwrapped(t, open, close) ==
  LET start == Find(t, open)
      end == Find(t, close) IN
  IF IsSome(start) /\ IsSome(end)
    THEN IF Unwrap(end) < Unwrap(start)
           THEN [panic |-> TRUE, t |-> t]
           ELSE [panic |-> FALSE,
                 t |-> Trim(SubSeq(t, Unwrap(start) + 1, Unwrap(end) - 1))]
    ELSE [panic |-> FALSE, t |-> t]

\* app.rs 640-660: strip_wrappers; `value` is the Option<String> returned.
StripWrappers(text) ==
  LET t == Trim(text) IN
  IF IsSome(Find(t, "<environment_context>"))
    THEN [panic |-> FALSE, value |-> None]
    ELSE LET u == Unwrapped(t, "<user_instructions>", "</user_instructions>")
         IN
         IF u.panic THEN [panic |-> TRUE, value |-> None]
         ELSE LET v == Unwrapped(u.t, "<user_interactions>",
                                 "</user_interactions>") IN
              IF v.panic THEN [panic |-> TRUE, value |-> None]
              ELSE [panic |-> FALSE, value |-> Some(v.t)]

\* app.rs 495-506: the InputText/OutputText items are appended to `text`,
\* after a '\n' when `text` is not empty.
RECURSIVE ConcatInto(_, _)
ConcatInto(text, content) ==
  IF content = <<>> THEN text
  ELSE LET c == Head(content) IN
       IF c.type \in {"InputText", "OutputText"}
         THEN ConcatInto((IF text # <<>> THEN text \o <<"nl">> ELSE text)
                           \o c.text, Tail(content))
         ELSE ConcatInto(text, Tail(content))

ConcatText(content) == ConcatInto(<<>>, content)

\* The lines of a text, split at '\n'.
RECURSIVE SplitLines(_)
SplitLines(t) ==
  LET nl == Find(t, "nl") IN
  IF IsSome(nl)
    THEN <<SubSeq(t, 1, Unwrap(nl) - 1)>>
           \o SplitLines(SubSeq(t, Unwrap(nl) + 1, Len(t)))
    ELSE <<t>>

\* markdown::append_markdown: one rendered line for each line of the text.
AppendMarkdown(text) ==
  LET ls == SplitLines(text) IN
  [i \in 1..Len(ls) |-> [kind |-> "markdown", text |-> ls[i]]]

\* history_cell::new_user_prompt(text).display_lines().
UserPromptLines(text) ==
  LET ls == SplitLines(text) IN
  <<[kind |-> "blank"], [kind |-> "user"]>>
    \o [i \in 1..Len(ls) |-> [kind |-> "user_text", text |-> ls[i]]]

\* app.rs 521: MAX_LINES.
MAX_LINES == 18

\* app.rs 459: the most highlights the recap shows.
MAX_HIGHLIGHTS == 6

\* str::split_once("__"): the parts around the first "__", or None.
SplitOnce(name) ==
  LET at == {i \in 1..(Len(name) - 1) : name[i] = "_" /\ name[i + 1] = "_"} IN
  IF at = {} THEN None
  ELSE Some(<<SubSeq(name, 1, Min(at) - 1),
              SubSeq(name, Min(at) + 2, Len(name))>>)

\* app.rs 544-547 (and 447-450): (server, tool) of a qualified name.
ServerTool(name) ==
  LET parts == SplitOnce(name) IN
  IF IsSome(parts) THEN Unwrap(parts) ELSE <<name, <<>>>>

\* Vec<String>::join(" ").
RECURSIVE Join(_)
Join(tokens) ==
  IF tokens = <<>> THEN <<>>
  ELSE IF Len(tokens) = 1 THEN tokens[1]
  ELSE tokens[1] \o <<"sp">> \o Join(Tail(tokens))

\* OutputsByCall keeping the first payload inserted for a call_id.
OutputsByCall_KeepFirst(es) ==
  LET outs == {i \in 1..Len(es) : es[i].type = "FunctionCallOutput"}
      ids == {es[i].call_id : i \in outs} IN
  [c \in ids |-> es[Min({i \in outs : es[i].call_id = c})].output]

\* app.rs 484-491: outputs_by_call; HashMap::insert keeps the last payload
\* inserted for a call_id.
OutputsByCall(es) ==
  LET outs == {i \in 1..Len(es) : es[i].type = "FunctionCallOutput"}
      ids == {es[i].call_id : i \in outs} IN
  [c \in ids |-> es[Max({i \in outs : es[i].call_id = c})].output]

\* HashMap::get.
Get(outputs, call_id) ==
  IF call_id \in DOMAIN outputs THEN Some(outputs[call_id]) ELSE None

\* Mark with unwrap_or(false).
Mark_DefaultFalse(success) ==
  IF (IF IsSome(success) THEN Unwrap(success) ELSE FALSE) THEN "ok" ELSE "fail"

\* Option<bool>::unwrap_or(true), and the mark it selects.
Mark(success) ==
  IF (IF IsSome(success) THEN Unwrap(success) ELSE TRUE) THEN "ok" ELSE "fail"

\* RenderMessage truncating from MAX_LINES lines on.
RenderMessage_TruncateAt(item) ==
  LET stripped == StripWrappers(ConcatText(item.content))
      text == IF IsSome(stripped.value) THEN Unwrap(stripped.value) ELSE <<>>
  IN
  IF text = <<>> THEN <<>>
  ELSE IF item.role = "user" THEN UserPromptLines(text)
  ELSE LET md == AppendMarkdown(text) IN
       <<[kind |-> "blank"], [kind |-> "codex"]>>
         \o (IF Len(md) >= MAX_LINES
               THEN SubSeq(md, 1, MAX_LINES) \o <<[kind |-> "truncated"]>>
               ELSE md)

\* app.rs 494-533: a Message.
RenderMessage(item) ==
  LET stripped == StripWrappers(ConcatText(item.content))
      text == IF IsSome(stripped.value) THEN Unwrap(stripped.value) ELSE <<>>
  IN
  IF text = <<>> THEN <<>>
  ELSE IF item.role = "user" THEN UserPromptLines(text)
  ELSE LET md == AppendMarkdown(text) IN
       <<[kind |-> "blank"], [kind |-> "codex"]>>
         \o (IF Len(md) > MAX_LINES
               THEN SubSeq(md, 1, MAX_LINES) \o <<[kind |-> "truncated"]>>
               ELSE md)

\* RenderItem whose exec line does not look the output up: the payload is
\* always the synthesized one.
RenderItem_ExecNoLookup(item, outputs) ==
  IF item.type = "Message" THEN RenderMessage(item)
  ELSE IF item.type = "FunctionCall" /\ IsSome(Get(outputs, item.call_id))
    THEN LET payload == Unwrap(Get(outputs, item.call_id)) IN
         <<[kind |-> "blank"],
           [kind |-> "tool", server |-> ServerTool(item.name)[1],
            tool |-> ServerTool(item.name)[2],
            mark |-> Mark(payload.success)]>>
  ELSE IF item.type = "Reasoning"
    THEN <<[kind |-> "blank"], [kind |-> "thinking"]>>
  ELSE IF item.type = "LocalShellCall"
    THEN <<[kind |-> "blank"],
           [kind |-> "exec", mark |-> Mark(Some(TRUE)),
            cmd |-> Join(item.command)]>>
  ELSE IF item.type = "FunctionCallOutput" /\ item.output.content # <<>>
    THEN <<[kind |-> "blank"], [kind |-> "codex"]>>
           \o AppendMarkdown(item.output.content)
  ELSE <<>>

\* RenderItem whose FunctionCallOutput block does not depend on the
\* content.
RenderItem_OutputAlways(item, outputs) ==
  IF item.type = "Message" THEN RenderMessage(item)
  ELSE IF item.type = "FunctionCall" /\ IsSome(Get(outputs, item.call_id))
    THEN LET payload == Unwrap(Get(outputs, item.call_id)) IN
         <<[kind |-> "blank"],
           [kind |-> "tool", server |-> ServerTool(item.name)[1],
            tool |-> ServerTool(item.name)[2],
            mark |-> Mark(payload.success)]>>
  ELSE IF item.type = "Reasoning"
    THEN <<[kind |-> "blank"], [kind |-> "thinking"]>>
  ELSE IF item.type = "LocalShellCall"
    THEN LET found == IF IsSome(item.call_id)
                        THEN Get(outputs, Unwrap(item.call_id)) ELSE None
             payload == IF IsSome(found) THEN Unwrap(found)
                        ELSE [content |-> <<>>, success |-> Some(TRUE)] IN
         <<[kind |-> "blank"],
           [kind |-> "exec", mark |-> Mark(payload.success),
            cmd |-> Join(item.command)]>>
  ELSE IF item.type = "FunctionCallOutput"
    THEN <<[kind |-> "blank"], [kind |-> "codex"]>>
           \o AppendMarkdown(item.output.content)
  ELSE <<>>

\* app.rs 493-613: the lines one entry adds to `out`.
RenderItem(item, outputs) ==
  IF item.type = "Message" THEN RenderMessage(item)
  ELSE IF item.type = "FunctionCall" /\ IsSome(Get(outputs, item.call_id))
    THEN LET payload == Unwrap(Get(outputs, item.call_id)) IN
         <<[kind |-> "blank"],
           [kind |-> "tool", server |-> ServerTool(item.name)[1],
            tool |-> ServerTool(item.name)[2],
            mark |-> Mark(payload.success)]>>
  ELSE IF item.type = "Reasoning"
    THEN <<[kind |-> "blank"], [kind |-> "thinking"]>>
  ELSE IF item.type = "LocalShellCall"
    THEN LET found == IF IsSome(item.call_id)
                        THEN Get(outputs, Unwrap(item.call_id)) ELSE None
             payload == IF IsSome(found) THEN Unwrap(found)
                        ELSE [content |-> <<>>, success |-> Some(TRUE)] IN
         <<[kind |-> "blank"],
           [kind |-> "exec", mark |-> Mark(payload.success),
            cmd |-> Join(item.command)]>>
  ELSE IF item.type = "FunctionCallOutput" /\ item.output.content # <<>>
    THEN <<[kind |-> "blank"], [kind |-> "codex"]>>
           \o AppendMarkdown(item.output.content)
  ELSE <<>>

\* app.rs 493: the walk over the entries, in order.
RECURSIVE Walk(_, _)
Walk(es, outputs) ==
  IF es = <<>> THEN <<>>
  ELSE RenderItem(Head(es), outputs) \o Walk(Tail(es), outputs)

\* app.rs 432-465: the highlights, the last MAX_HIGHLIGHTS exec and tool
\* calls of the entries, in forward order.
Highlights(es) ==
  LET IsCall(e) == e.type \in {"LocalShellCall", "FunctionCall"}
      calls == SelectSeq(es, IsCall)
      first == IF Len(calls) > MAX_HIGHLIGHTS
                 THEN Len(calls) - MAX_HIGHLIGHTS + 1 ELSE 1
      shown == SubSeq(calls, first, Len(calls)) IN
  [i \in 1..Len(shown) |->
     IF shown[i].type = "LocalShellCall"
       THEN [kind |-> "highlight_exec", cmd |-> Join(shown[i].command)]
       ELSE [kind |-> "highlight_tool",
             server |-> ServerTool(shown[i].name)[1],
             tool |-> ServerTool(shown[i].name)[2]]]

\* app.rs 417-482: the recap header.  `meta` holds what the files at the
\* path gave: the (created, id) of read_rollout_meta_first_line, defaulted,
\* and the message_count of read_session_stats.
RecapHeader(es, meta) ==
  <<[kind |-> "blank"],
    [kind |-> "restored", created |-> meta.created,
     n |-> IF IsSome(meta.message_count) THEN Unwrap(meta.message_count)
           ELSE Len(es)]>>
    \o Highlights(es)
    \o (IF IsSome(meta.id) THEN <<[kind |-> "id", id |-> Unwrap(meta.id)]>>
        ELSE <<>>)
    \o <<[kind |-> "path"]>>

\* app.rs 403-616: render_lines_for_resumed_history, when it returns.
RenderLines(es, resume) ==
  (IF IsSome(resume) THEN RecapHeader(es, Unwrap(resume)) ELSE <<>>)
    \o Walk(es, OutputsByCall(es))

\* app.rs 508: strip_wrappers aborts on one of the messages.
Aborts(es) ==
  \E i \in 1..Len(es) :
    /\ es[i].type = "Message"
    /\ StripWrappers(ConcatText(es[i].content)).panic

\* What the files at a resume path can give when none of them is readable.
NoMeta == [created |-> <<>>, id |-> None, message_count |-> None]

\* What the files at a resume path give when the first line of the rollout
\* and its sidecar are readable.
SomeMeta == [created |-> <<"x">>, id |-> Some(1), message_count |-> Some(42)]

\* Qualified tool names: "s__t", "s___t" and, without separator, "st".
Names ==
  {<<"s", "_", "_", "t">>, <<"s", "_", "_", "_", "t">>, <<"s", "t">>}

CallIds == {"c1", "c2"}

\* The ResponseItems the entries are made of.  LocalShellAction has the one
\* variant Exec.
Items ==
  {[type |-> "FunctionCall", name |-> n, call_id |-> c] :
     n \in Names, c \in CallIds}
  \cup {[type |-> "FunctionCallOutput", call_id |-> c,
         output |-> [content |-> ct, success |-> su]] :
          c \in CallIds, ct \in {<<>>, <<"x">>},
          su \in {None, Some(TRUE), Some(FALSE)}}
  \cup {[type |-> "LocalShellCall", call_id |-> o,
         command |-> <<<<"e">>, <<"h", "i">>>>] :
          o \in {None} \cup {Some(c) : c \in CallIds}}
  \cup {[type |-> "Reasoning"]}
  \cup {[type |-> "Message", role |-> r,
         content |-> <<[type |-> "OutputText", text |-> <<"x">>]>>] :
          r \in {"user", "assistant"}}

\* The tokens message texts are drawn from.
Tokens ==
  {"x", "sp", "<environment_context>",
   "<user_instructions>", "</user_instructions>",
   "<user_interactions>", "</user_interactions>"}

\* A text of n lines "x".
RECURSIVE LinesText(_)
LinesText(n) ==
  IF n <= 1 THEN <<"x">> ELSE LinesText(n - 1) \o <<"nl", "x">>

MessageTexts ==
  SeqsUpTo(Tokens, MaxText) \cup {LinesText(n) : n \in 1..MaxMdLines}

\* Messages of one text item, and messages whose text is spread over two
\* text items around an item that is no text.
MessageItems ==
  {[type |-> "Message", role |-> r,
    content |-> <<[type |-> "OutputText", text |-> t]>>] :
     r \in {"user", "assistant"}, t \in MessageTexts}
  \cup {[type |-> "Message", role |-> r,
         content |-> <<[type |-> "InputText", text |-> a],
                       [type |-> "InputImage"],
                       [type |-> "OutputText", text |-> b]>>] :
          r \in {"user", "assistant"},
          a \in SeqsUpTo(Tokens, 1), b \in SeqsUpTo(Tokens, 1)}

\* ------------------------------------------------------------ log scanner
\* Files are sequences of tokens, each standing for some bytes: "{" and
\* "}"; "S" for the member "record_type":"state"; "M" for the key
\* "message_count": and, after it, one token for the number; "I" for the
\* members that make a line a ResponseItem; "u1" "u2" for the two bytes of
\* one character inside a string member; "x" for other text; "sp" and
\* "nl" for white space.
\* The numbers: 1, 2, 42, 4294967338 (2^32 + 42) and -1.  A u64 is the
\* pair of its upper and lower 32 bits.
NumTokens == {"1", "2", "42", "big", "neg"}

\* Value::as_u64.
AsU64(num) ==
  CASE num = "1" -> Some([hi |-> 0, lo |-> 1])
    [] num = "2" -> Some([hi |-> 0, lo |-> 2])
    [] num = "42" -> Some([hi |-> 0, lo |-> 42])
    [] num = "big" -> Some([hi |-> 1, lo |-> 42])
    [] OTHER -> None

\* `n as u32`: the lower 32 bits.
AsU32(n) == n.lo

\* session_meta.rs 63-67: the ASCII digits that follow, parsed as u32.
\* There are none before "-1", and 4294967338 exceeds u32.
ParseDigitsU32(num) ==
  IF num \in {"1", "2", "42"} THEN Some(Unwrap(AsU64(num)).lo) ELSE None

\* The members of a JSON object, read from the tokens after "{": None when
\* they are no object; a repeated key keeps its last value.
RECURSIVE ParseMembers(_, _)
ParseMembers(ts, v) ==
  IF ts = <<>> THEN None
  ELSE IF ts = <<"}">> THEN Some(v)
  ELSE IF Head(ts) = "S" THEN ParseMembers(Tail(ts), [v EXCEPT !.state = TRUE])
  ELSE IF Head(ts) = "I" THEN ParseMembers(Tail(ts), [v EXCEPT !.item = TRUE])
  ELSE IF Head(ts) = "M" /\ Len(ts) >= 2 /\ ts[2] \in NumTokens
    THEN ParseMembers(Tail(Tail(ts)), [v EXCEPT !.count = Some(ts[2])])
  ELSE IF Head(ts) = "u1" /\ Len(ts) >= 2 /\ ts[2] = "u2"
    THEN ParseMembers(Tail(Tail(ts)), v)
  ELSE None

\* serde_json::from_str::<Value> (from_slice): the object read, or None.
ParseJson(ts) ==
  IF ts # <<>> /\ Head(ts) = "{"
    THEN ParseMembers(Tail(ts),
                      [state |-> FALSE, item |-> FALSE, count |-> None])
    ELSE None

\* v.get("message_count").and_then(|n| n.as_u64()).
MessageCountOf(v) == IF IsSome(v.count) THEN AsU64(Unwrap(v.count)) ELSE None

\* std::str::from_utf8 succeeds: every "u1" is followed by its "u2" and
\* every "u2" follows its "u1".
IsUtf8(bytes) ==
  \A i \in 1..Len(bytes) :
    /\ bytes[i] = "u1" => (i < Len(bytes) /\ bytes[i + 1] = "u2")
    /\ bytes[i] = "u2" => (i > 1 /\ bytes[i - 1] = "u1")

\* session_meta.rs 31-35: the last max_bytes bytes.
TailSlice(bytes, n) ==
  IF Len(bytes) > n THEN SubSeq(bytes, Len(bytes) - n + 1, Len(bytes))
  ELSE bytes

\* session_meta.rs 42-72: one line of the scan; `acc` holds
\* stats.message_count and count.
ScanLine(acc, line) ==
  LET l == Trim(line)
      v == ParseJson(l) IN
  IF l = <<>> THEN acc
  ELSE IF IsSome(v)
    THEN IF Unwrap(v).state
           THEN IF IsSome(MessageCountOf(Unwrap(v)))
                  THEN [acc EXCEPT !.message_count =
                          Some(AsU32(Unwrap(MessageCountOf(Unwrap(v)))))]
                  ELSE acc
           ELSE IF Unwrap(v).item
                  THEN [acc EXCEPT !.count = acc.count + 1]
                  ELSE acc
    ELSE IF IsSome(Find(l, "S"))
      THEN LET i == Find(l, "M") IN
           IF acc.message_count = None
                /\ IsSome(i) /\ Unwrap(i) < Len(l)
                /\ IsSome(ParseDigitsU32(l[Unwrap(i) + 1]))
             THEN [acc EXCEPT !.message_count =
                     ParseDigitsU32(l[Unwrap(i) + 1])]
             ELSE acc
      ELSE acc

\* session_meta.rs 41: the loop over text.lines().
RECURSIVE ScanLines(_, _)
ScanLines(acc, ls) ==
  IF ls = <<>> THEN acc ELSE ScanLines(ScanLine(acc, Head(ls)), Tail(ls))

\* The tail scan without the check of from_utf8.
TailScan_SkipUtf8Check(bytes, n) ==
  LET slice == TailSlice(bytes, n) IN
  LET acc == ScanLines([message_count |-> None, count |-> 0],
                       SplitLines(slice)) IN
  IF acc.message_count = None THEN Some(acc.count)
  ELSE acc.message_count

\* session_meta.rs 27-77: the tail scan; the message_count returned.
TailScan(bytes, n) ==
  LET slice == TailSlice(bytes, n) IN
  IF ~IsUtf8(slice) THEN None
  ELSE LET acc == ScanLines([message_count |-> None, count |-> 0],
                            SplitLines(slice)) IN
       IF acc.message_count = None THEN Some(acc.count)
       ELSE acc.message_count

\* session_meta.rs 15-78: read_session_stats; the message_count of the
\* SessionStats returned.
ReadSessionStats(sc, lg, n) ==
  IF sc # Unreadable /\ IsSome(ParseJson(Trim(sc)))
    THEN LET v == Unwrap(ParseJson(Trim(sc))) IN
         IF IsSome(MessageCountOf(v))
           THEN Some(AsU32(Unwrap(MessageCountOf(v)))) ELSE None
  ELSE IF lg = Unreadable THEN None
  ELSE TailScan(lg, n)

\* app.rs 419: the max_bytes the renderer passes, 512 * 1024.
RESUME_MAX_BYTES == 524288

\* app.rs 418-420: the recap takes its message_count from the scanner.
WithStats(resume) ==
  IF IsSome(resume)
    THEN Some([Unwrap(resume) EXCEPT
                 !.message_count =
                   ReadSessionStats(sidecar, log, RESUME_MAX_BYTES)])
    ELSE None

\* A caller calls read_session_stats(path, max_bytes).
ReadStats ==
  /\ stats = None
  /\ stats' = Some([message_count |->
                      ReadSessionStats(sidecar, log, max_bytes)])
  /\ UNCHANGED <<slVars, animVars, ctlVars, entries, resume_path, rendered,
                 sidecar, log, max_bytes>>

\* A caller hands its entries to render_lines_for_resumed_history.
Render ==
  /\ rendered = None
  /\ rendered' = Some([panic |-> Aborts(entries),
                       lines |-> IF Aborts(entries) THEN <<>>
                                 ELSE RenderLines(entries,
                                                  WithStats(resume_path))])
  /\ UNCHANGED <<slVars, animVars, ctlVars, entries, resume_path, scanVars>>

\* ============================================= application controller
\* Conversation (session) ids: the one the conversation engine configures
\* the chat widget with, and another one.
ThisSession == 1
ConvIds == {ThisSession, 2}

\* App events that handle_event only passes on to the chat widget or to the
\* file search (app.rs 182-187, 274, 291-310).
ForwardedKinds ==
  {"UpdateRepoInfo", "CodexOp", "StartFileSearch", "FileSearchResult",
   "UpdateReasoningEffort", "UpdateModel", "UpdateAskForApprovalPolicy",
   "UpdateSandboxPolicy"}

\* k fresh lines of the given origin, numbered after the n lines so far.
FreshLines(src, n, k) == [i \in 1..k |-> [src |-> src, id |-> n + i]]

\* The app events about the history and the overlays that a producer can
\* send once n lines exist, with the exit request.  A history cell has its
\* transcript_lines() and its display_lines(), which may be empty.
HistoryEvents(n) ==
  {[kind |-> "NewSession"], [kind |-> "ExitRequest"], [kind |-> "CodexOp"]}
  \cup {[kind |-> "ResumeSession", path |-> p] : p \in Paths}
  \cup {[kind |-> "InsertHistoryLines",
         lines |-> FreshLines("lines", n, LinesPerEvent)]}
  \cup {[kind |-> "InsertHistoryCell",
         transcript |-> FreshLines("cell_transcript", n, 1),
         display |-> FreshLines("cell_display", n + 1, d)] : d \in 0..1}
  \cup {[kind |-> "DiffResult", blank |-> FALSE]}

\* The app events about sessions: the session switches, the engine events
\* (SessionConfigured among them) and the history responses.
SessionEvents ==
  {[kind |-> "NewSession"]}
  \cup {[kind |-> "ResumeSession", path |-> p] : p \in Paths}
  \cup {[kind |-> "CodexEvent", configured |-> c] :
          c \in {None, Some(ThisSession)}}
  \cup {[kind |-> "ConversationHistory", conversation_id |-> i,
         entries |-> <<[type |-> "Reasoning"]>>] : i \in ConvIds}

\* Number of lines an event brings into existence.
LinesOf(ev) ==
  IF ev.kind = "InsertHistoryLines" THEN Len(ev.lines)
  ELSE IF ev.kind = "InsertHistoryCell"
         THEN Len(ev.transcript) + Len(ev.display)
  ELSE 0

\* A holder of an AppEventSender (chat widget, conversation engine, file
\* search) sends one of the events `evs`; the receiver lives as long as
\* App::run.
EmitApp(evs) ==
  /\ loop = "running"
  /\ appEmitted < MaxAppEvents
  /\ Len(app_event_rx) < MaxQueue
  /\ \E ev \in evs :
       /\ app_event_rx' = Append(app_event_rx, ev)
       /\ nextLine' = nextLine + LinesOf(ev)
  /\ appEmitted' = appEmitted + 1
  /\ UNCHANGED <<slVars, tickerVars, rndVars, loop, transcript_lines, overlay,
                 deferred_history_lines, scrollback, experimental_resume,
                 session_id, backtrack, tuiHandled, lastEvent, lastKey,
                 replays, lastFlush>>

\* The events whose handling calls into the terminal with `?`; the exit
\* request; and the others.
EventClass(kind) ==
  IF kind = "ExitRequest" THEN "exit"
  ELSE IF kind \in {"ConversationHistory", "Draw", "overlay_event"}
    THEN "fallible"
  ELSE "other"

EmitHistoryEvent == EmitApp(HistoryEvents(nextLine))

EmitSessionEvent == EmitApp(SessionEvents)

\* What every app-event handler does to the channel and to the history.
Taken(kind) ==
  /\ Received(kind)
  /\ app_event_rx' = Tail(app_event_rx)
  /\ lastEvent' = EventClass(kind)
  /\ UNCHANGED <<slVars, tickerVars, rndVars, appEmitted, tuiHandled, nextLine,
                 lastKey, lastFlush>>

\* app.rs 170-181: a fresh ChatWidget, which has no session yet.
HandleNewSession ==
  /\ Taken("NewSession")
  /\ session_id' = None
  /\ UNCHANGED <<loop, transcript_lines, overlay, deferred_history_lines,
                 scrollback, experimental_resume, backtrack, replays>>

\* app.rs 188-200: record the path, then a fresh ChatWidget.
HandleResumeSession ==
  /\ Taken("ResumeSession")
  /\ experimental_resume' = Some(Head(app_event_rx).path)
  /\ session_id' = None
  /\ replays' = 0
  /\ UNCHANGED <<loop, transcript_lines, overlay, deferred_history_lines,
                 scrollback, backtrack>>

\* Overlay::Transcript(t): t.insert_lines(lines); other overlays and no
\* overlay are left alone.
MirrorIntoOverlay(o, lines) ==
  IF IsSome(o) /\ Unwrap(o).kind = "Transcript"
    THEN Some([Unwrap(o) EXCEPT !.lines = @ \o lines])
    ELSE o

\* HandleInsertHistoryLines writing to scrollback under an open overlay as
\* well as deferring.
HandleInsertHistoryLines_AlsoScrollback ==
  /\ Taken("InsertHistoryLines")
  /\ LET lines == Head(app_event_rx).lines IN
       /\ overlay' = MirrorIntoOverlay(overlay, lines)
       /\ transcript_lines' = transcript_lines \o lines
       /\ scrollback' = scrollback \o lines
       /\ IF IsSome(overlay)
            THEN deferred_history_lines' = deferred_history_lines \o lines
            ELSE UNCHANGED deferred_history_lines
  /\ UNCHANGED <<loop, experimental_resume, session_id, backtrack, replays>>

\* app.rs 201-212.
HandleInsertHistoryLines ==
  /\ Taken("InsertHistoryLines")
  /\ LET lines == Head(app_event_rx).lines IN
       /\ overlay' = MirrorIntoOverlay(overlay, lines)
       /\ transcript_lines' = transcript_lines \o lines
       /\ IF IsSome(overlay)
            THEN /\ deferred_history_lines' = deferred_history_lines \o lines
                 /\ UNCHANGED scrollback
            ELSE /\ scrollback' = scrollback \o lines
                 /\ UNCHANGED deferred_history_lines
  /\ UNCHANGED <<loop, experimental_resume, session_id, backtrack, replays>>

\* HandleInsertHistoryCell without the test of the overlay: the display
\* lines always go to scrollback.
HandleInsertHistoryCell_NoDefer ==
  /\ Taken("InsertHistoryCell")
  /\ LET cell_transcript == Head(app_event_rx).transcript
         display == Head(app_event_rx).display IN
       /\ overlay' = MirrorIntoOverlay(overlay, cell_transcript)
       /\ transcript_lines' = transcript_lines \o cell_transcript
       /\ scrollback' = scrollback \o display
       /\ UNCHANGED deferred_history_lines
  /\ UNCHANGED <<loop, experimental_resume, session_id, backtrack, replays>>

\* app.rs 213-228.
HandleInsertHistoryCell ==
  /\ Taken("InsertHistoryCell")
  /\ LET cell_transcript == Head(app_event_rx).transcript
         display == Head(app_event_rx).display IN
       /\ overlay' = MirrorIntoOverlay(overlay, cell_transcript)
       /\ transcript_lines' = transcript_lines \o cell_transcript
       /\ IF display # <<>> /\ IsSome(overlay)
            THEN /\ deferred_history_lines' = deferred_history_lines \o display
                 /\ UNCHANGED scrollback
            ELSE IF display # <<>>
            THEN /\ scrollback' = scrollback \o display
                 /\ UNCHANGED deferred_history_lines
            ELSE UNCHANGED <<scrollback, deferred_history_lines>>
  /\ UNCHANGED <<loop, experimental_resume, session_id, backtrack, replays>>

\* app.rs 251-253: the chat widget learns its session id from the
\* SessionConfigured event; other engine events leave it alone.
HandleCodexEvent ==
  /\ Taken("CodexEvent")
  /\ session_id' = IF IsSome(Head(app_event_rx).configured)
                     THEN Head(app_event_rx).configured ELSE session_id
  /\ UNCHANGED <<loop, transcript_lines, overlay, deferred_history_lines,
                 scrollback, experimental_resume, backtrack, replays>>

\* app.rs 338-347: the notice of a replay of n entries.
Notice(n) == <<[kind |-> "blank"], [kind |-> "restored_session", n |-> n]>>

\* app.rs 262-263: the condition of a resume replay.
IsResumeReplay(ev) ==
  /\ IsSome(experimental_resume)
  /\ session_id = Some(ev.conversation_id)

\* on_conversation_history_for_backtrack: the pending request is taken when
\* the event answers it.
OnConversationHistoryForBacktrack(b, ev) ==
  IF Unwrap(b.pending) = ev.conversation_id
    THEN [b EXCEPT !.pending = None] ELSE b

\* HandleConversationHistory without line 267: the resume path stays set
\* after the replay.
HandleConversationHistory_KeepPath ==
  /\ Taken("ConversationHistory")
  /\ LET ev == Head(app_event_rx) IN
       IF IsSome(backtrack.pending)
         THEN /\ backtrack' = OnConversationHistoryForBacktrack(backtrack, ev)
              /\ loop' \in {"running", "failed"}
              /\ UNCHANGED <<transcript_lines, scrollback, overlay,
                             deferred_history_lines, experimental_resume,
                             session_id, replays>>
       ELSE IF IsResumeReplay(ev)
         THEN /\ transcript_lines' =
                   transcript_lines \o RenderLines(ev.entries, Some(NoMeta))
              /\ scrollback' = scrollback \o Notice(Len(ev.entries))
              /\ replays' = replays + 1
              /\ UNCHANGED <<loop, overlay, deferred_history_lines,
                             session_id, backtrack, experimental_resume>>
       ELSE UNCHANGED <<loop, transcript_lines, scrollback, overlay,
                        deferred_history_lines, experimental_resume,
                        session_id, backtrack, replays>>

\* app.rs 254-270 with render_resumed_history, 322-350.  With a backtrack
\* pending the event goes to the backtrack flow, whose error ends the run.
HandleConversationHistory ==
  /\ Taken("ConversationHistory")
  /\ LET ev == Head(app_event_rx) IN
       IF IsSome(backtrack.pending)
         THEN /\ backtrack' = OnConversationHistoryForBacktrack(backtrack, ev)
              /\ loop' \in {"running", "failed"}
              /\ UNCHANGED <<transcript_lines, scrollback, overlay,
                             deferred_history_lines, experimental_resume,
                             session_id, replays>>
       ELSE IF IsResumeReplay(ev)
         THEN /\ transcript_lines' =
                   transcript_lines \o RenderLines(ev.entries, Some(NoMeta))
              /\ scrollback' = scrollback \o Notice(Len(ev.entries))
              /\ experimental_resume' = None
              /\ replays' = replays + 1
              /\ UNCHANGED <<loop, overlay, deferred_history_lines,
                             session_id, backtrack>>
       ELSE UNCHANGED <<loop, transcript_lines, scrollback, overlay,
                        deferred_history_lines, experimental_resume,
                        session_id, backtrack, replays>>

\* HandleExitRequest returning Ok(true) like the other arms.
HandleExitRequest_Continues ==
  /\ Taken("ExitRequest")
  /\ UNCHANGED <<loop, transcript_lines, overlay, deferred_history_lines,
                 scrollback, experimental_resume, session_id, backtrack,
                 replays>>

\* app.rs 271-273 and 105-114: Ok(false) ends the loop of App::run.
HandleExitRequest ==
  /\ Taken("ExitRequest")
  /\ loop' = "exited"
  /\ UNCHANGED <<transcript_lines, overlay, deferred_history_lines,
                 scrollback, experimental_resume, session_id, backtrack,
                 replays>>

\* app.rs 275-290: a Static overlay takes the place of whatever was there.
HandleDiffResult ==
  /\ Taken("DiffResult")
  /\ overlay' = Some([kind |-> "Static",
                      lines |-> IF Head(app_event_rx).blank
                                  THEN <<[kind |-> "no_changes"]>>
                                  ELSE <<[kind |-> "diff"]>>])
  /\ UNCHANGED <<loop, transcript_lines, deferred_history_lines, scrollback,
                 experimental_resume, session_id, backtrack, replays>>

\* app.rs 182-187, 274, 291-310: events passed on to the chat widget or to
\* the file search.
HandleForwarded ==
  /\ \E k \in ForwardedKinds : Taken(k)
  /\ UNCHANGED <<loop, transcript_lines, overlay, deferred_history_lines,
                 scrollback, experimental_resume, session_id, backtrack,
                 replays>>

\* app.rs 109-111: the loop of App::run receives the next terminal event.
TuiTaken(name) ==
  /\ loop = "running"
  /\ tuiHandled < MaxTuiEvents
  /\ tuiHandled' = tuiHandled + 1
  /\ lastEvent' = EventClass(name)
  /\ UNCHANGED <<slVars, animVars, rndVars, appEmitted, nextLine,
                 experimental_resume, session_id, replays, transcript_lines>>

\* app.rs 122-123: with an overlay open every terminal event goes to the
\* overlay handler, which keeps the overlay open, or closes it (the deferred
\* lines are flushed into scrollback in order and the alternate screen is
\* left), or fails on the terminal.
HandleOverlayEvent ==
  /\ IsSome(overlay)
  /\ TuiTaken("overlay_event")
  /\ \/ UNCHANGED <<loop, overlay, deferred_history_lines, scrollback,
                    lastFlush>>
     \/ /\ overlay' = None
        /\ scrollback' = scrollback \o deferred_history_lines
        /\ deferred_history_lines' = <<>>
        /\ lastFlush' = deferred_history_lines
        /\ UNCHANGED loop
     \/ /\ loop' = "failed"
        /\ UNCHANGED <<overlay, deferred_history_lines, scrollback, lastFlush>>
  /\ UNCHANGED <<backtrack, lastKey>>

\* The key events of the terminal.
Keys ==
  [code : {"t", "Esc", "Enter", "x"}, mods : {"none", "ctrl"},
   kind : {"Press", "Repeat", "Release"}]

\* handle_backtrack_esc_key: the first Esc primes, each further one counts.
AdvanceBacktrack(b) ==
  IF b.primed THEN [b EXCEPT !.count = @ + 1] ELSE [b EXCEPT !.primed = TRUE]

\* reset_backtrack_state.
ResetBacktrack(b) == [b EXCEPT !.primed = FALSE, !.count = 0]

\* confirm_backtrack_from_main: the request for the history of the
\* conversation `base` becomes pending.
ConfirmBacktrack(b, base) ==
  [primed |-> FALSE, count |-> 0, pending |-> Some(base)]

\* Dispatch whose Enter arm lacks the guard `self.backtrack.count > 0`.
Dispatch_EnterNoCount(key, normal, empty, b) ==
  IF key.code = "t" /\ key.mods = "ctrl" /\ key.kind = "Press"
    THEN "open_transcript"
  ELSE IF key.code = "Esc" /\ key.kind \in {"Press", "Repeat"}
    THEN IF normal /\ empty THEN "advance" ELSE "forward"
  ELSE IF key.code = "Enter" /\ key.kind = "Press" /\ b.primed /\ empty
    THEN "confirm"
  ELSE IF key.kind \in {"Press", "Repeat"}
    THEN IF key.code # "Esc" /\ b.primed THEN "reset_forward" ELSE "forward"
  ELSE "ignore"

\* app.rs 353-399: which arm of the match takes the key.  `normal` and
\* `empty` are chat_widget.is_normal_backtrack_mode() and
\* chat_widget.composer_is_empty().
Dispatch(key, normal, empty, b) ==
  IF key.code = "t" /\ key.mods = "ctrl" /\ key.kind = "Press"
    THEN "open_transcript"
  ELSE IF key.code = "Esc" /\ key.kind \in {"Press", "Repeat"}
    THEN IF normal /\ empty THEN "advance" ELSE "forward"
  ELSE IF key.code = "Enter" /\ key.kind = "Press"
          /\ b.primed /\ b.count > 0 /\ empty
    THEN "confirm"
  ELSE IF key.kind \in {"Press", "Repeat"}
    THEN IF key.code # "Esc" /\ b.primed THEN "reset_forward" ELSE "forward"
  ELSE "ignore"

\* app.rs 126-128 with handle_key_event, 353-399, for a key among `keys`
\* and answers of the chat widget among `answers`.
HandleKey(keys, answers) ==
  /\ overlay = None
  /\ TuiTaken("Key")
  /\ \E key \in keys, normal \in answers, empty \in answers :
       LET outcome == Dispatch(key, normal, empty, backtrack) IN
       /\ outcome = "advance" => backtrack.count < MaxCount
       /\ lastKey' = [code |-> key.code, mods |-> key.mods, kind |-> key.kind,
                      normal |-> normal, empty |-> empty,
                      primed |-> backtrack.primed, count |-> backtrack.count,
                      outcome |-> outcome]
       /\ overlay' = IF outcome = "open_transcript"
                       THEN Some([kind |-> "Transcript",
                                  lines |-> transcript_lines])
                       ELSE overlay
       /\ backtrack' =
            IF outcome = "advance" THEN AdvanceBacktrack(backtrack)
            ELSE IF outcome = "confirm"
              THEN ConfirmBacktrack(backtrack, IF IsSome(session_id)
                                                 THEN Unwrap(session_id) ELSE 1)
            ELSE IF outcome = "reset_forward" THEN ResetBacktrack(backtrack)
            ELSE backtrack
  /\ UNCHANGED <<loop, deferred_history_lines, scrollback, lastFlush>>

\* Any key, whatever the chat widget answers.
HandleKeyEvent == HandleKey(Keys, BOOLEAN)

\* The presses that open the transcript overlay and drive the backtrack,
\* with the chat widget in normal backtrack mode and its composer empty.
PressKeys ==
  {[code |-> "t", mods |-> "ctrl", kind |-> "Press"],
   [code |-> "Esc", mods |-> "none", kind |-> "Press"],
   [code |-> "Enter", mods |-> "none", kind |-> "Press"]}

HandleKeyPress == HandleKey(PressKeys, {TRUE})

\* Ctrl-T alone.
HandleCtrlT ==
  HandleKey({[code |-> "t", mods |-> "ctrl", kind |-> "Press"]}, {TRUE})

\* app.rs 129-136 and 154-162: Paste and AttachImage go to the chat widget.
HandlePasteOrImage ==
  /\ overlay = None
  /\ TuiTaken("Paste")
  /\ UNCHANGED <<loop, overlay, deferred_history_lines, scrollback,
                 backtrack, lastKey, lastFlush>>

\* app.rs 137-153: Draw returns early on a paste burst; otherwise
\* terminal.size() and tui.draw are tried, and their error ends the run.
HandleDraw ==
  /\ overlay = None
  /\ TuiTaken("Draw")
  /\ loop' \in {"running", "failed"}
  /\ UNCHANGED <<overlay, deferred_history_lines, scrollback, backtrack,
                 lastKey, lastFlush>>

\* The controller as App::run builds it, beside one idle status-line
\* pipeline and no ticker.
InitController ==
  /\ InitSL /\ now = 0 /\ command = "argv" /\ padding = 0
  /\ InitAnim /\ InitCtl /\ InitRnd

\* The main loop with the history, the overlays and the exit.
NextCtl ==
  \/ EmitHistoryEvent
  \/ HandleNewSession \/ HandleResumeSession
  \/ HandleInsertHistoryLines \/ HandleInsertHistoryCell
  \/ HandleExitRequest \/ HandleDiffResult \/ HandleForwarded
  \/ HandleOverlayEvent \/ HandleCtrlT \/ HandlePasteOrImage \/ HandleDraw

SpecCtl == InitController /\ [][NextCtl]_vars

\* The main loop with the sessions, the history responses and the backtrack.
NextResume ==
  \/ EmitSessionEvent
  \/ HandleNewSession \/ HandleResumeSession
  \/ HandleCodexEvent \/ HandleConversationHistory
  \/ HandleOverlayEvent \/ HandleKeyPress

SpecResume == InitController /\ [][NextResume]_vars

\* The key dispatch on its own.
NextKeys == HandleKeyEvent \/ HandleOverlayEvent

SpecKeys == InitController /\ [][NextKeys]_vars

\* The renderer applied to every list of at most MaxEntries entries, with
\* and without a resume path.
InitRender ==
  /\ InitSL /\ now = 0 /\ command = "argv" /\ padding = 0
  /\ InitAnim /\ InitCtl /\ experimental_resume = None
  /\ entries \in SeqsUpTo(Items, MaxEntries)
  /\ resume_path \in {None, Some(SomeMeta)}
  /\ rendered = None
  /\ sidecar = <<"{", "M", "42", "}">> /\ log = <<>>
  /\ max_bytes = 0 /\ stats = None

NextRender == Render

SpecRender == InitRender /\ [][NextRender]_vars

\* The renderer applied to every single message, without resume path.
InitMessage ==
  /\ InitSL /\ now = 0 /\ command = "argv" /\ padding = 0
  /\ InitAnim /\ InitCtl /\ experimental_resume = None
  /\ entries \in {<<m>> : m \in MessageItems}
  /\ resume_path = None
  /\ rendered = None
  /\ sidecar = Unreadable /\ log = Unreadable
  /\ max_bytes = 0 /\ stats = None

NextMessage == Render

SpecMessage == InitMessage /\ [][NextMessage]_vars

\* The lines a log is made of: state records with a count (the key after
\* or before the record type), without count, with a count beyond u32 and
\* with a negative one; log items, one with a two-byte character; another
\* object, one with a two-byte character; state records that are no JSON
\* (unterminated; with a count beyond u32); other text; a byte that is no
\* UTF-8; a blank line.
LogLines ==
  {<<"{", "S", "M", "1", "}">>, <<"{", "M", "2", "S", "}">>,
   <<"{", "S", "}">>, <<"{", "S", "M", "big", "}">>,
   <<"{", "S", "M", "neg", "}">>,
   <<"{", "I", "}">>, <<"{", "I", "u1", "u2", "}">>,
   <<"{", "}">>, <<"{", "u1", "u2", "}">>,
   <<"{", "S", "M", "2">>, <<"S", "M", "big">>,
   <<"x">>, <<"u2">>, <<"sp">>}

\* The bytes of a log: every line ends with '\n'.
RECURSIVE FileOf(_)
FileOf(ls) == IF ls = <<>> THEN <<>> ELSE Head(ls) \o <<"nl">> \o FileOf(Tail(ls))

Logs == {FileOf(ls) : ls \in SeqsUpTo(LogLines, MaxLogLines)}

\* The sidecars: none; objects with a count, with a count beyond u32, with
\* a negative count and without count; and a file that is no JSON.
Sidecars ==
  {Unreadable, <<"{", "M", "42", "}">>, <<"{", "M", "big", "}", "nl">>,
   <<"{", "M", "neg", "}">>, <<"{", "}">>, <<"{", "M", "42">>}

\* What the scanner is called on: any sidecar beside any log with the
\* max_bytes of the renderer, and any log without usable sidecar with any
\* max_bytes.
ScanInputs ==
  {[sidecar |-> sc, log |-> lg, max_bytes |-> RESUME_MAX_BYTES] :
     sc \in Sidecars, lg \in Logs \cup {Unreadable}}
  \cup {[sidecar |-> sc, log |-> lg, max_bytes |-> n] :
          sc \in {Unreadable, <<"{", "M", "42">>},
          lg \in Logs \cup {Unreadable}, n \in 0..MaxBytes}

\* The scanner and the renderer applied to the files at a resume path.
InitScan ==
  /\ InitSL /\ now = 0 /\ command = "argv" /\ padding = 0
  /\ InitAnim /\ InitCtl /\ experimental_resume = None
  /\ entries = <<[type |-> "Reasoning"]>>
  /\ resume_path = Some(SomeMeta)
  /\ rendered = None
  /\ \E in \in ScanInputs :
       sidecar = in.sidecar /\ log = in.log /\ max_bytes = in.max_bytes
  /\ stats = None

NextScan == ReadStats \/ Render

SpecScan == InitScan /\ [][NextScan]_vars

\* ------------------------------------------------------------------ Next
Worker ==
  \/ RecvSome \/ RecvClosed \/ CheckWindow \/ Wake
  \/ SpawnFail \/ SpawnOk \/ WriteOk \/ WriteErr \/ WaitOutput \/ WaitErr
  \/ Publish \/ DrainOne \/ DrainDone

Next ==
  \/ Update \/ DropManager
  \/ Worker
  \/ ChildCloseStdin \/ ChildExit \/ OrphanExit
  \/ Tick

Spec == Init /\ [][Next]_vars
\* The worker is scheduled whenever it can take a step, time passes, and
\* every command run terminates; update() and the drop of the manager are
\* under no obligation to happen.
SpecLive ==
  Init /\ [][Next]_vars /\ WF_vars(Worker) /\ WF_vars(ChildExit) /\ WF_vars(Tick)

\* The worker is scheduled whenever it can take a step and time passes; a
\* command is under no obligation to exit.
SpecSched == Init /\ [][Next]_vars /\ WF_vars(Worker) /\ WF_vars(Tick)

\* ================================================================ claims
\* The worker waits in recv() with nothing queued and nothing pending.
Quiescent == pc = "recv" /\ update_rx = <<>> /\ pending = None

\* The worker is inside run_status_line_command or about to send its result.
InCall == pc \in {"write", "wait", "publish"}

\* C1: any two consecutive UpdateStatusLine publications of one pipeline are
\* at least STATUS_LINE_MIN_INTERVAL (300 ms) apart.
C1_MinGap ==
  IsSome(prevPubAt) => lastPub.at - Unwrap(prevPubAt) >= STATUS_LINE_MIN_INTERVAL

\* Two publications happened, exactly 300 ms apart.
C1_Witness ==
  /\ npub >= 2
  /\ IsSome(prevPubAt)
  /\ lastPub.at - Unwrap(prevPubAt) = STATUS_LINE_MIN_INTERVAL

\* The last snapshot submitted has been run and its result published.
Settled ==
  \/ submitted = 0
  \/ /\ runs # <<>>
     /\ Last(runs) = submitted
     /\ npub = Len(runs)
     /\ lastPub.snap = submitted

\* C2: once snapshots stop arriving (and every command run terminates) the
\* command is eventually invoked with the last snapshot submitted and its
\* result is published, and that stays so: the last snapshot is never lost.
C2_LastSnapshotPublished == <>[]Settled

\* All snapshots were submitted, some were coalesced away (they arrived while
\* the worker slept or ran the command), and the last one was published.
C2_Witness ==
  /\ submitted = MaxSnap
  /\ Quiescent
  /\ Settled
  /\ Len(runs) < submitted

\* All MaxSnap snapshots arrived in one burst at creation time, nothing else
\* arrives, and the worker has come to rest.
BurstDone == burst /\ submitted = MaxSnap /\ Quiescent

\* C3 as claimed: after a burst on a fresh pipeline the command was invoked
\* exactly once, with the last snapshot, and one event was emitted.
C3_Orig == BurstDone => (runs = <<MaxSnap>> /\ npub = 1)

\* C3 as amended: after a burst on a fresh pipeline the command was invoked
\* first with the first snapshot of the burst and last with its last
\* snapshot (so at least twice), each snapshot at most once and in order,
\* and one event was emitted per invocation.
C3_BurstFirstAndLast ==
  BurstDone =>
    /\ Len(runs) \in 2..MaxSnap
    /\ Head(runs) = 1
    /\ Last(runs) = MaxSnap
    /\ \A i \in 1..(Len(runs) - 1) : runs[i] < runs[i + 1]
    /\ npub = Len(runs)

\* A burst that ended in two invocations: the first and the last snapshot.
C3_Witness == BurstDone /\ runs = <<1, MaxSnap>> /\ npub = Len(runs)

\* C4: at most one status-line command process is alive per pipeline at any
\* time, also after a run that ended early on a failed write to stdin.
C4_AtMostOneChild == AliveChildren <= 1

\* Every invocation so far has been published, bar the one in progress.
OnePublicationPerCall == npub + (IF InCall THEN 1 ELSE 0) = Len(runs)

\* stdout holds a byte that is not valid UTF-8.
NotUtf8(out) == \E i \in 1..Len(out) : out[i] = "bad"

\* C5 as claimed: every command invocation is followed by exactly one
\* publication, which carries None whenever the spawn failed, the child
\* exited non-zero, stdout was empty or stdout was not valid UTF-8.
C5_Orig ==
  /\ OnePublicationPerCall
  /\ pc = "publish" =>
       ((\/ ~run.spawned
         \/ run.waited /\ ~run.ok
         \/ run.waited /\ run.out = <<>>
         \/ run.waited /\ NotUtf8(run.out)) => output = None)

\* C5 as amended: every command invocation is followed by exactly one
\* publication, which carries None whenever the spawn failed, the child
\* exited non-zero or stdout was empty; stdout that is not valid UTF-8 is
\* decoded lossily and published like any other text (a successful run
\* whose stdout is invalid bytes only publishes a line).
C5_NoneOnFailure ==
  /\ OnePublicationPerCall
  /\ pc = "publish" =>
       /\ (\/ ~run.spawned
           \/ run.waited /\ ~run.ok
           \/ run.waited /\ run.out = <<>>) => output = None
       /\ (/\ run.waited /\ run.ok /\ run.out # <<>>
           /\ \A i \in 1..Len(run.out) : run.out[i] = "bad") => IsSome(output)

\* After an earlier publication, a child that wrote to stdout exited
\* non-zero and the call returned None.
C5_Witness ==
  /\ pc = "publish"
  /\ npub >= 1
  /\ run.waited /\ ~run.ok /\ run.out # <<>>
  /\ output = None

\* The first line of ls that is not blank, None when there is none.
FirstNonBlank(ls) ==
  LET good == {i \in 1..Len(ls) : ~TrimIsEmpty(ls[i])} IN
  IF good = {} THEN None
  ELSE Some(ls[CHOOSE i \in good : \A j \in good : i <= j])

\* C6 as claimed: on a successful run the published line is the first
\* non-empty line of stdout behind `padding` spaces, blank lines before it
\* being skipped; None only when stdout has no non-empty line.
C6_Orig ==
  (pc = "publish" /\ run.waited /\ run.ok) =>
    LET first == FirstNonBlank(Lines(FromUtf8Lossy(run.out))) IN
    output = IF IsSome(first) THEN Some(Repeat(padding) \o Unwrap(first))
             ELSE None

\* f is the first line of text: the text up to its first line ending ("\n"
\* or "\r\n"), or all of it when it has none.
IsFirstLine(f, text) ==
  \E k \in 0..Len(text) :
    /\ f = SubSeq(text, 1, k)
    /\ \A i \in 1..k : text[i] # "nl"
    /\ \/ k = Len(text)
       \/ text[k + 1] = "nl" /\ (k = 0 \/ text[k] # "cr")
       \/ k + 2 <= Len(text) /\ text[k + 1] = "cr" /\ text[k + 2] = "nl"

Prefixes(text) == {SubSeq(text, 1, k) : k \in 0..Len(text)}

\* C6 as amended: on a successful run the published line is the first line
\* of stdout (decoded lossily) behind `padding` spaces when that line is not
\* blank, and None otherwise: blank lines are not skipped.
C6_FirstLine ==
  (pc = "publish" /\ run.waited /\ run.ok) =>
    LET text == FromUtf8Lossy(run.out)
        cand == {f \in Prefixes(text) :
                   text # <<>> /\ IsFirstLine(f, text) /\ ~TrimIsEmpty(f)}
    IN IF cand = {} THEN output = None
       ELSE \E f \in cand : output = Some(Repeat(padding) \o f)

\* A successful run whose stdout is an empty line followed by text: None.
C6_Witness ==
  /\ pc = "publish"
  /\ run.waited /\ run.ok
  /\ run.out = <<"nl", "a">>
  /\ output = None

\* The worker leaves its loop only with the sender dropped and the channel
\* drained, the last snapshot submitted having been run and published.
ExitsDrained ==
  pc = "done" =>
    /\ ~senderAlive /\ update_rx = <<>> /\ pending = None
    /\ child.st = "none"
    /\ npub = Len(runs)
    /\ submitted > 0 => (runs # <<>> /\ Last(runs) = submitted)

\* The worker is in wait_with_output() on a child that has not exited.
AwaitsChild == pc = "wait" /\ child.st = "running"

C9_AtMostOneTicker == NumTickers <= 1

\* C10: when a Stop is handled after a Start with no CommitTick emitted in
\* between, at most one CommitTick is emitted after that Stop (until the
\* next Start is handled).
C10_AtMostOneStaleTick == afterStop = "before_any_tick" => staleTicks <= 1

\* C11: once StopCommitAnimation has stored false, every ticker that was
\* running at that moment exits at its next load of the flag, after at most
\* one further sleep-and-emit iteration: none of them loads true again.
C11_TickerExitsAfterStop == ~oldContinued

\* ------------------------------------------------------- the main loop
\* C12: the loop of App::run ends normally only by handling ExitRequest.
\* It has exited exactly when the event handled last is the exit request;
\* after any other app or terminal event it is still running, unless the
\* event is one whose handling calls into the terminal and that call
\* failed; and once it is left nothing is received any more, whatever is
\* still queued.
C12_OnlyExitEndsLoop ==
  /\ [](loop = "exited" <=> lastEvent = "exit")
  /\ [](lastEvent = "other" => loop = "running")
  /\ [](loop = "failed" => lastEvent = "fallible")
  /\ [][loop # "running" =>
          /\ app_event_rx' = app_event_rx
          /\ ctlVars' = ctlVars]_vars

\* The loop has exited with an event still queued behind the exit request.
C12_Witness == loop = "exited" /\ app_event_rx # <<>> /\ tuiHandled > 0

\* ------------------------------------------------------ history buffers
\* A line that came with an InsertHistoryLines event.
IsInsertedLine(l) == "src" \in DOMAIN l /\ l.src = "lines"

InsertedLines(buffer) == SelectSeq(buffer, IsInsertedLine)

\* Lines are numbered as they are created, so arrival order is the order
\* of the numbers.
InArrivalOrder(buffer) ==
  \A i, j \in 1..Len(buffer) : i < j => buffer[i].id < buffer[j].id

\* C13: whatever InsertHistoryLines events were handled and however the
\* overlays opened and closed in between, the lines of these events in the
\* transcript buffer are the lines of these events in scrollback followed
\* by those in the deferred buffer, and each of the three buffers holds
\* them in arrival order.
C13_TranscriptIsScrollbackThenDeferred ==
  /\ InsertedLines(transcript_lines)
       = InsertedLines(scrollback) \o InsertedLines(deferred_history_lines)
  /\ InArrivalOrder(InsertedLines(transcript_lines))
  /\ InArrivalOrder(InsertedLines(scrollback))
  /\ InArrivalOrder(InsertedLines(deferred_history_lines))

\* Lines were inserted with and without an overlay, an overlay was closed
\* with deferred lines, and lines are deferred again.
C13_Witness ==
  /\ InsertedLines(lastFlush) # <<>>
  /\ InsertedLines(deferred_history_lines) # <<>>
  /\ Len(InsertedLines(scrollback)) > Len(InsertedLines(lastFlush))

\* The controller handles the InsertHistoryLines or InsertHistoryCell event
\* at the head of the channel.
InsertStep ==
  /\ loop = "running"
  /\ app_event_rx # <<>>
  /\ Head(app_event_rx).kind \in {"InsertHistoryLines", "InsertHistoryCell"}
  /\ app_event_rx' = Tail(app_event_rx)

\* The lines such an event has for scrollback.
ForScrollback(ev) ==
  IF ev.kind = "InsertHistoryLines" THEN ev.lines ELSE ev.display

\* C14: handling InsertHistoryLines or InsertHistoryCell while an overlay is
\* open leaves scrollback as it is and appends the lines to the deferred
\* buffer; with no overlay the lines are appended to scrollback and the
\* deferred buffer is left as it is.  Lines are deferred only while an
\* overlay is open, and closing the overlay appends exactly the deferred
\* lines, in order, to scrollback.
C14_DeferredWhileOverlay ==
  /\ [][InsertStep =>
          IF IsSome(overlay)
            THEN /\ scrollback' = scrollback
                 /\ deferred_history_lines' =
                      deferred_history_lines
                        \o ForScrollback(Head(app_event_rx))
            ELSE /\ scrollback' = scrollback
                                    \o ForScrollback(Head(app_event_rx))
                 /\ deferred_history_lines' = deferred_history_lines]_vars
  /\ [](deferred_history_lines # <<>> => IsSome(overlay))
  /\ [][IsSome(overlay) /\ overlay' = None =>
          /\ scrollback' = scrollback \o deferred_history_lines
          /\ deferred_history_lines' = <<>>]_vars

\* Two InsertHistoryLines events were handled under an open overlay, and
\* its close has put exactly their lines, in order, at the end of
\* scrollback.
C14_Witness ==
  /\ overlay = None
  /\ lastFlush = InsertedLines(lastFlush)
  /\ Len(lastFlush) = 2 * LinesPerEvent
  /\ InArrivalOrder(lastFlush)
  /\ Len(scrollback) >= Len(lastFlush)
  /\ SubSeq(scrollback, Len(scrollback) - Len(lastFlush) + 1, Len(scrollback))
       = lastFlush

\* The controller handles the NewSession or ResumeSession event at the head
\* of the channel.
SessionSwitchStep ==
  /\ loop = "running"
  /\ app_event_rx # <<>>
  /\ Head(app_event_rx).kind \in {"NewSession", "ResumeSession"}
  /\ app_event_rx' = Tail(app_event_rx)

IsPrefix(a, b) == Len(a) <= Len(b) /\ SubSeq(b, 1, Len(a)) = a

\* C15: the transcript buffer is empty right after NewSession or
\* ResumeSession is handled, and every other step only appends to it.
C15_TranscriptClearedOnSessionSwitch ==
  [][IF SessionSwitchStep
       THEN transcript_lines' = <<>>
       ELSE IsPrefix(transcript_lines, transcript_lines')]_vars

\* ------------------------------------------------------- resume replay
\* The controller handles the ConversationHistory event at the head of the
\* channel.
HistoryStep ==
  /\ loop = "running"
  /\ app_event_rx # <<>>
  /\ Head(app_event_rx).kind = "ConversationHistory"
  /\ app_event_rx' = Tail(app_event_rx)

\* No backtrack is pending, resume_path is set and the event's conversation
\* id is the chat widget's session id.
ReplayCondition ==
  /\ backtrack.pending = None
  /\ experimental_resume # None
  /\ session_id # None
  /\ Unwrap(session_id) = Head(app_event_rx).conversation_id

Pressed == lastKey.kind \in {"Press", "Repeat"}

\* The latest key was passed on to the chat widget.
Forwarded == lastKey.outcome \in {"forward", "reset_forward"}

\* C17: with no overlay open, an Esc press or repeat in normal backtrack
\* mode with an empty composer advances the backtrack state and is not
\* forwarded; a non-Esc press or repeat forwarded while the backtrack was
\* primed has reset the backtrack state; and an Enter press confirms the
\* backtrack only when it was primed with count > 0 and the composer empty.
C17_KeyDispatch ==
  /\ (lastKey.code = "Esc" /\ Pressed /\ lastKey.normal /\ lastKey.empty)
       => (~Forwarded /\ backtrack.primed
           /\ (lastKey.primed => backtrack.count = lastKey.count + 1))
  /\ (lastKey.code # "Esc" /\ Pressed /\ Forwarded /\ lastKey.primed)
       => (~backtrack.primed /\ backtrack.count = 0)
  /\ lastKey.outcome = "confirm"
       => (lastKey.code = "Enter" /\ lastKey.kind = "Press"
           /\ lastKey.primed /\ lastKey.count > 0 /\ lastKey.empty
           /\ IsSome(backtrack.pending))

\* Two Escs armed the backtrack and an Enter press has confirmed it.
C17_Witness ==
  /\ lastKey.outcome = "confirm"
  /\ IsSome(backtrack.pending)
  /\ ~backtrack.primed

\* ------------------------------------------------- resumed-history renderer
\* The renderer was called on the entries and has returned its lines.
Returned == IsSome(rendered) /\ ~Unwrap(rendered).panic

IsToolLine(l) == l.kind = "tool"
IsExecLine(l) == l.kind = "exec"
IsFunctionCall(e) == e.type = "FunctionCall"
IsShellCall(e) == e.type = "LocalShellCall"

\* The outputs of the entries that carry the call id `c`.
OutputsFor(c) ==
  {i \in 1..Len(entries) :
     entries[i].type = "FunctionCallOutput" /\ entries[i].call_id = c}

\* The FunctionCalls of the entries that share their call_id with an output.
IsPairedCall(e) == IsFunctionCall(e) /\ OutputsFor(e.call_id) # {}

\* (server, tool) are the parts of `name` around its first "__"; a name
\* without "__" is the server, with an empty tool.
IsSplitOf(name, server, tool) ==
  LET HasSep(t) == \E i \in 1..(Len(t) - 1) : t[i] = "_" /\ t[i + 1] = "_" IN
  \/ /\ name = server \o <<"_", "_">> \o tool
     /\ ~HasSep(server \o <<"_">>)
  \/ /\ ~HasSep(name)
     /\ server = name /\ tool = <<>>

\* The mark for an output: a check when success is true or absent.
MarkOf(i) ==
  IF entries[i].output.success = Some(FALSE) THEN "fail" ELSE "ok"

\* C18: without resume path, the tool lines returned are, in order, one for
\* each FunctionCall that shares its call_id with a FunctionCallOutput: its
\* server and tool are the parts of the name around the first "__", and its
\* mark is that of an output with this call_id.
C18_OneToolLinePerPair ==
  (Returned /\ resume_path = None) =>
    LET tools == SelectSeq(Unwrap(rendered).lines, IsToolLine)
        calls == SelectSeq(entries, IsPairedCall) IN
    /\ Len(tools) = Len(calls)
    /\ \A k \in 1..Len(calls) :
         /\ IsSplitOf(calls[k].name, tools[k].server, tools[k].tool)
         /\ \E i \in OutputsFor(calls[k].call_id) : tools[k].mark = MarkOf(i)

\* A call "s___t" is paired with outputs without success: its line is
\* "tool s/_t" with a check.
C18_Witness ==
  /\ Returned /\ resume_path = None
  /\ Len(entries) = 3
  /\ \E i \in 1..3 : /\ IsPairedCall(entries[i])
                     /\ entries[i].name = <<"s", "_", "_", "_", "t">>
                     /\ \A j \in OutputsFor(entries[i].call_id) :
                          entries[j].output.success = None
  /\ \E k \in 1..Len(Unwrap(rendered).lines) :
       Unwrap(rendered).lines[k]
         = [kind |-> "tool", server |-> <<"s">>, tool |-> <<"_", "t">>,
            mark |-> "ok"]

\* The mark a shell call must get: a check without call_id or without
\* output for it, else that of an output with its call_id.
ExecMarks(e) ==
  IF e.call_id = None \/ OutputsFor(Unwrap(e.call_id)) = {}
    THEN {"ok"}
    ELSE {MarkOf(i) : i \in OutputsFor(Unwrap(e.call_id))}

\* C19: the exec lines returned are, in order, one for each LocalShellCall:
\* its command is the tokens joined by spaces and its mark follows the
\* success of the output with the same call_id, a check when the call has
\* no call_id, no output, or an output without success.
C19_OneExecLinePerShellCall ==
  Returned =>
    LET execs == SelectSeq(Unwrap(rendered).lines, IsExecLine)
        calls == SelectSeq(entries, IsShellCall) IN
    /\ Len(execs) = Len(calls)
    /\ \A k \in 1..Len(calls) :
         /\ execs[k].cmd = <<"e", "sp", "h", "i">>
         /\ execs[k].mark \in ExecMarks(calls[k])

\* A shell call with a failed output and one without call_id were
\* rendered: a cross and a check.
C19_Witness ==
  /\ Returned
  /\ LET execs == SelectSeq(Unwrap(rendered).lines, IsExecLine) IN
       /\ Len(execs) = 2
       /\ execs[1].mark = "fail"
       /\ execs[2].mark = "ok"
  /\ \E i \in 1..Len(entries) : IsShellCall(entries[i])
                                 /\ entries[i].call_id = None

\* The last output of the entries with the call id `c`.
LastOutputFor(c) == Max(OutputsFor(c))

\* C20 as claimed: every FunctionCall and every LocalShellCall has its
\* line, a call without output bearing a check.
C20_Orig ==
  Returned =>
    LET tools == SelectSeq(Unwrap(rendered).lines, IsToolLine)
        execs == SelectSeq(Unwrap(rendered).lines, IsExecLine) IN
    /\ Len(tools) = Len(SelectSeq(entries, IsFunctionCall))
    /\ Len(execs) = Len(SelectSeq(entries, IsShellCall))

\* C20 as amended: every LocalShellCall has its line, and every
\* FunctionCall that shares its call_id with an output has its line, while
\* a FunctionCall without output has none; a shell call without output
\* bears a check; and when several outputs share a call_id, the last of
\* them in the entries determines the mark.
C20_PairedCallsRendered ==
  Returned =>
    LET tools == SelectSeq(Unwrap(rendered).lines, IsToolLine)
        execs == SelectSeq(Unwrap(rendered).lines, IsExecLine)
        paired == SelectSeq(entries, IsPairedCall)
        shells == SelectSeq(entries, IsShellCall) IN
    /\ Len(tools) = Len(paired)
    /\ Len(execs) = Len(shells)
    /\ \A k \in 1..Len(paired) :
         tools[k].mark = MarkOf(LastOutputFor(paired[k].call_id))
    /\ \A k \in 1..Len(shells) :
         execs[k].mark =
           IF shells[k].call_id = None
                \/ OutputsFor(Unwrap(shells[k].call_id)) = {}
             THEN "ok"
             ELSE MarkOf(LastOutputFor(Unwrap(shells[k].call_id)))

\* Two outputs of opposite success share the call id of a FunctionCall, the
\* failed one last: the one tool line bears a cross.
C20_Witness ==
  /\ Returned
  /\ Len(entries) = 3
  /\ IsFunctionCall(entries[1])
  /\ OutputsFor(entries[1].call_id) = {2, 3}
  /\ entries[2].output.success = Some(TRUE)
  /\ entries[3].output.success = Some(FALSE)
  /\ SelectSeq(Unwrap(rendered).lines, IsToolLine)[1].mark = "fail"

\* ------------------------------------------------------------ messages
\* The one message the renderer was called on, and its concatenated text.
TheMessage == entries[1]
Tags == Tokens \ {"x", "sp"}
HasToken(t, tok) == \E i \in 1..Len(t) : t[i] = tok
IsTruncationLine(l) == l.kind = "truncated"

\* The renderer returned from a single non-user message whose text has no
\* wrapper tag and is not blank.
PlainAssistantRendered ==
  /\ Returned
  /\ Len(entries) = 1 /\ TheMessage.type = "Message"
  /\ TheMessage.role # "user"
  /\ \A tag \in Tags : ~HasToken(ConcatText(TheMessage.content), tag)
  /\ Trim(ConcatText(TheMessage.content)) # <<>>

\* C21: for a non-user message whose markdown has more than 18 lines, the
\* lines after the header are the first 18 markdown lines followed by one
\* truncation line; with 18 lines or fewer they are all the markdown lines
\* and there is no truncation line.
C21_TruncatedAt18 ==
  PlainAssistantRendered =>
    LET lines == Unwrap(rendered).lines
        md == AppendMarkdown(Trim(ConcatText(TheMessage.content)))
        body == SubSeq(lines, 3, Len(lines)) IN
    /\ SubSeq(lines, 1, 2) = <<[kind |-> "blank"], [kind |-> "codex"]>>
    /\ IF Len(md) > 18
         THEN body = SubSeq(md, 1, 18) \o <<[kind |-> "truncated"]>>
         ELSE body = md /\ SelectSeq(lines, IsTruncationLine) = <<>>

\* A message of 19 lines was cut to 18 lines and the truncation line.
C21_Witness ==
  /\ PlainAssistantRendered
  /\ Len(SplitLines(ConcatText(TheMessage.content))) = 19
  /\ Len(Unwrap(rendered).lines) = 21
  /\ Unwrap(rendered).lines[21] = [kind |-> "truncated"]

\* The text between the first `open` and the first `close` of t, trimmed,
\* when t has both; else t.
Between(t, open, close) ==
  IF HasToken(t, open) /\ HasToken(t, close)
    THEN Trim(SubSeq(t, Min({i \in 1..Len(t) : t[i] = open}) + 1,
                     Min({i \in 1..Len(t) : t[i] = close}) - 1))
    ELSE t

\* The texts of the lines that show text.
ShownText(lines) ==
  LET IsText(l) == l.kind \in {"markdown", "user_text"}
      shown == SelectSeq(lines, IsText) IN
  [i \in 1..Len(shown) |-> shown[i].text]

\* C22: the renderer returns from every message; a message whose text has
\* <environment_context> emits no line; otherwise the text shown is the
\* text with each of the wrappers user_instructions and user_interactions
\* replaced by the trimmed text between its tags (the first 18 lines of it
\* for a non-user message), and a message whose text is then empty emits no
\* line.
C22_WrappersStripped ==
  (IsSome(rendered) /\ Len(entries) = 1 /\ TheMessage.type = "Message") =>
    LET t == Trim(ConcatText(TheMessage.content))
        u == Between(Between(t, "<user_instructions>", "</user_instructions>"),
                     "<user_interactions>", "</user_interactions>")
        lines == Unwrap(rendered).lines IN
    /\ Returned
    /\ IF HasToken(t, "<environment_context>") \/ u = <<>>
         THEN lines = <<>>
         ELSE LET ls == SplitLines(u) IN
              ShownText(lines) =
                IF TheMessage.role # "user" /\ Len(ls) > 18
                  THEN SubSeq(ls, 1, 18) ELSE ls

\* ------------------------------------------------------------ log scanner
\* read_session_stats has returned, and what it returned.
Scanned == IsSome(stats)
Count == Unwrap(stats).message_count

\* The sidecar exists and parses as JSON.
SidecarParses == sidecar # Unreadable /\ IsSome(ParseJson(Trim(sidecar)))

\* The u32 `c` is the unsigned integer `n`.
IsValue(c, n) == n.hi = 0 /\ c = Some(n.lo)

\* The "Restored" line of the recap header shows (n).
RecapShows(n) ==
  \E k \in 1..Len(Unwrap(rendered).lines) :
    /\ Unwrap(rendered).lines[k].kind = "restored"
    /\ Unwrap(rendered).lines[k].n = n

\* C23: with a sidecar that parses as JSON, read_session_stats returns the
\* sidecar's message_count (none when the sidecar has no unsigned
\* message_count) whatever the log holds, and the recap header shows it.
C23_SidecarOverrides ==
  SidecarParses =>
    LET n == MessageCountOf(Unwrap(ParseJson(Trim(sidecar)))) IN
    /\ Scanned => IF IsSome(n) THEN IsValue(Count, Unwrap(n))
                               ELSE Count = None
    /\ (Returned /\ IsSome(n)) => /\ Unwrap(n).hi = 0
                                  /\ RecapShows(Unwrap(n).lo)

\* No usable sidecar: the scanner turns to the log.
NoSidecar == ~SidecarParses
Readable == log # Unreadable

\* The lines of the log, trimmed.
RECURSIVE LinesOfFile(_)
LinesOfFile(bytes) ==
  IF bytes = <<>> THEN <<>>
  ELSE LET nl == Find(bytes, "nl") IN
       IF IsSome(nl)
         THEN <<Trim(SubSeq(bytes, 1, Unwrap(nl) - 1))>>
                \o LinesOfFile(SubSeq(bytes, Unwrap(nl) + 1, Len(bytes)))
         ELSE <<Trim(bytes)>>

\* The line is a log item: JSON that is no state record and parses as a
\* ResponseItem.
IsLogItem(l) ==
  /\ IsSome(ParseJson(l))
  /\ ~Unwrap(ParseJson(l)).state /\ Unwrap(ParseJson(l)).item

\* The line is a state record, as JSON or only textually.
IsStateRecord(l) == HasToken(l, "S")

CutMidLine ==
  /\ Readable /\ Len(log) > max_bytes
  /\ log[Len(log) - max_bytes] # "nl"

\* The bytes read, without the partial line at their head.
WholeLines ==
  LET slice == TailSlice(log, max_bytes)
      nl == Find(slice, "nl") IN
  IF IsSome(nl) THEN SubSeq(slice, Unwrap(nl) + 1, Len(slice)) ELSE <<>>

\* C25: when the tail read starts inside a line, the result is that of a
\* scan of the complete lines read: the partial line at the head has no
\* part in it.
C25_PartialHeadDiscarded ==
  (Scanned /\ NoSidecar /\ CutMidLine) =>
    Count = TailScan(WholeLines, Len(WholeLines))

\* The lines scanned: those of the bytes read, trimmed, in order.
ScannedLines == LinesOfFile(TailSlice(log, max_bytes))

\* The unsigned message_count of a state record: that of the object when
\* the line is JSON, else the digits after the first "message_count":.
RecordCount(l) ==
  IF IsSome(ParseJson(l))
    THEN IF Unwrap(ParseJson(l)).state
           THEN MessageCountOf(Unwrap(ParseJson(l))) ELSE None
  ELSE IF HasToken(l, "S") /\ IsSome(Find(l, "M"))
            /\ Unwrap(Find(l, "M")) < Len(l)
         THEN AsU64(l[Unwrap(Find(l, "M")) + 1])
         ELSE None

\* C28: the tail scan returns the count of the latest state record with a
\* count among the lines scanned, read as JSON or permissively; without
\* such a record it returns the number of lines that are log items.
C28_LatestStateRecordWins ==
  (Scanned /\ NoSidecar /\ Readable /\ IsUtf8(TailSlice(log, max_bytes))) =>
    LET recs == {k \in 1..Len(ScannedLines) :
                   IsSome(RecordCount(ScannedLines[k]))} IN
    IF recs # {}
      THEN IsValue(Count, Unwrap(RecordCount(ScannedLines[Max(recs)])))
      ELSE Count = Some(Len(SelectSeq(ScannedLines, IsLogItem)))

\* ------------------------------------------------------ status line, again
\* C26: when the sleep of the worker ends and the window opens, the
\* snapshot about to be passed to the command is the most recent one
\* submitted by then.
C26_LatestSnapshotAfterSleep ==
  [][(pc = "sleep" /\ pc' = "call") => input' = submitted']_vars

\* C27: a run whose write to the child's stdin failed is published only
\* after the worker has waited for the child, with the line its exit
\* status and stdout determine.
C27_WriteFailureIgnored ==
  (pc = "publish" /\ run.spawned /\ ~run.wrote) =>
    /\ run.waited
    /\ output = ParseOutput(run.ok, run.out, padding)

\* ------------------------------------------------- function call outputs
IsCodexLine(l) == l.kind = "codex"
IsAssistantMessage(e) == e.type = "Message" /\ e.role # "user"
IsOutputWithContent(e) ==
  e.type = "FunctionCallOutput" /\ e.output.content # <<>>

\* The output shares its call_id with a FunctionCall or LocalShellCall of
\* the entries.
IsPairedOutput(e) ==
  /\ e.type = "FunctionCallOutput"
  /\ \E i \in 1..Len(entries) :
       \/ IsFunctionCall(entries[i]) /\ entries[i].call_id = e.call_id
       \/ IsShellCall(entries[i]) /\ entries[i].call_id = Some(e.call_id)

IsUnpairedOutputWithContent(e) == IsOutputWithContent(e) /\ ~IsPairedOutput(e)

\* Every "codex" header follows a blank line and precedes a markdown line.
CodexBlocksWellFormed(lines) ==
  \A k \in 1..Len(lines) :
    IsCodexLine(lines[k]) =>
      /\ k > 1 /\ lines[k - 1].kind = "blank"
      /\ k < Len(lines) /\ lines[k + 1].kind = "markdown"

\* C29 as claimed: without resume path, the "codex" blocks are those of
\* the assistant messages and one for each output with content that is
\* paired with no call.
C29_Orig ==
  (Returned /\ resume_path = None) =>
    Len(SelectSeq(Unwrap(rendered).lines, IsCodexLine))
      = Len(SelectSeq(entries, IsAssistantMessage))
          + Len(SelectSeq(entries, IsUnpairedOutputWithContent))

\* C29 as amended: without resume path, the "codex" blocks are those of
\* the assistant messages and one for each output with content, paired
\* with a call or not; an output without content has no block.
C29_EveryOutputWithContent ==
  (Returned /\ resume_path = None) =>
    /\ Len(SelectSeq(Unwrap(rendered).lines, IsCodexLine))
         = Len(SelectSeq(entries, IsAssistantMessage))
             + Len(SelectSeq(entries, IsOutputWithContent))
    /\ CodexBlocksWellFormed(Unwrap(rendered).lines)

\* A FunctionCall and its output with content were rendered: the tool line
\* with its mark, then the block of the output.
C29_Witness ==
  /\ Returned /\ resume_path = None
  /\ Len(entries) = 2
  /\ IsFunctionCall(entries[1])
  /\ IsOutputWithContent(entries[2]) /\ IsPairedOutput(entries[2])
  /\ Len(Unwrap(rendered).lines) = 5
  /\ Unwrap(rendered).lines[2].kind = "tool"
  /\ Unwrap(rendered).lines[4].kind = "codex"

\* ------------------------------------------------- the transcript overlay
\* C30: while a Transcript overlay is open, its lines are those of the
\* transcript buffer.
C30_OverlayMirrorsTranscript ==
  (IsSome(overlay) /\ Unwrap(overlay).kind = "Transcript") =>
    Unwrap(overlay).lines = transcript_lines

\* C31: a step that starts and ends with an overlay open leaves the live
\* scrollback as it is: what is destined for scrollback, the notice of a
\* resume replay included, goes to the deferred-history buffer.
C31_NoScrollbackWriteUnderOverlay ==
  [][(IsSome(overlay) /\ IsSome(overlay')) => scrollback' = scrollback]_vars

\* C32: strip_wrappers returns a value for every text: the renderer never
\* aborts on a message.
C32_StripWrappersTotal ==
  IsSome(rendered) => ~Unwrap(rendered).panic

\* C33: the snapshots passed to the command, in order, are a subsequence
\* of the snapshots submitted: each was submitted, none is passed twice
\* and none follows a newer one.
C33_RunsSubsequenceOfSubmitted ==
  /\ \A i \in 1..Len(runs) : runs[i] \in 1..submitted
  /\ \A i \in 1..Len(runs), j \in 1..Len(runs) : i < j => runs[i] < runs[j]

\* Three snapshots were submitted and the command was run with the first
\* and the third: the second was skipped by the drain.
C33_Witness ==
  /\ submitted = 3
  /\ runs = <<1, 3>>
====
